---- MODULE Spec2Model ----
(***************************************************************************)
(* Weather application: the server-side weather gateway                    *)
(* (fetchNWSWeatherData / fetchNWSForecastData), the synthetic generator   *)
(* (generateMockWeatherData), the request handlers of registerRoutes and   *)
(* the in-memory store MemStorage.                                         *)
(*                                                                         *)
(* Units.  Wall-clock time is in milliseconds, as Date.now() gives it; the *)
(* model clock `now` counts ticks of TickMs milliseconds since the start   *)
(* of the process.  Math.random() draws are in thousandths (0..999).       *)
(* Fractional quantities before rounding are in thousandths; the           *)
(* precipitation amount is in hundredths.                                  *)
(***************************************************************************)
EXTENDS Integers, Sequences, FiniteSets, TLC

VARIABLES
    now,          \* the wall clock, in ticks of TickMs
    locations,    \* MemStorage.locations: Map in insertion order
    weatherData,  \* MemStorage.weatherData: Map in insertion order
    hs,           \* the route handlers in flight (weather, forecast, hourly, search)
    geo,          \* the GET /api/locations/by-coordinates handler in flight
    gw,           \* one stand-alone gateway call (fetchNWS...Data)
    boot,         \* the local calendar time at tick 0: month and minute of day
    weatherAlerts,    \* MemStorage.weatherAlerts
    forecastData,     \* MemStorage.forecastData
    hourlyForecast,   \* MemStorage.hourlyForecast
    hook,         \* the browser: useAlertNotifications inside WeatherAlerts
    provider,     \* the browser: SettingsProvider and localStorage
    box           \* the browser: LocationSearch

\* The stores no route of the server writes
otherStores == <<weatherAlerts, forecastData, hourlyForecast>>

\* The components of the browser
client == <<hook, provider, box>>

vars == <<now, locations, weatherData, hs, geo, gw, boot, otherStores, client>>

----------------------------------------------------------------------------
(* Bounds of the model *)

MaxTime == 4          \* the clock runs over 0..MaxTime ticks
MaxLocations == 5     \* locations the store may hold
StartMinuteOfDay == 720   \* local time of day at tick 0 (12:00) of the server runs
StartMonth == 10      \* Date.getMonth() at tick 0 (0-based)

Handlers == {1, 2}    \* weather requests that may be in flight together

TickMs == 10 * 60 * 1000
StaleMs == 30 * 60 * 1000

NowMs == now * TickMs

----------------------------------------------------------------------------
(* Optional values: undefined is the empty sequence *)

Undefined == <<>>
Some(x) == <<x>>
IsDefined(o) == o # <<>>
Get(o) == o[1]

\* Math.round(n / d) for d > 0: round half up
RoundDiv(n, d) == (2 * n + d) \div (2 * d)

Max(a, b) == IF a >= b THEN a ELSE b
Min(a, b) == IF a <= b THEN a ELSE b

----------------------------------------------------------------------------
(* The calendar of the run *)

MinuteOfDay(ms) == (boot.minute + ms \div 60000) % 1440
getHours(ms) == MinuteOfDay(ms) \div 60
\* Days of the months of a common year, January first
MonthDays == <<31, 28, 31, 30, 31, 30, 31, 31, 30, 31, 30, 31>>

\* The month reached `days` days after the first day of `month`
RECURSIVE MonthAfter(_, _)
MonthAfter(month, days) ==
    IF days < MonthDays[month + 1] THEN month
    ELSE MonthAfter((month + 1) % 12, days - MonthDays[month + 1])

\* Date.getMonth(): tick 0 is in the first day of boot.month
getMonth(ms) == MonthAfter(boot.month, (boot.minute + ms \div 60000) \div 1440)
\* local midnight of the calendar day of ms
DayStart(ms) == ms - (ms % 60000) - MinuteOfDay(ms) * 60000

----------------------------------------------------------------------------
(* Synthetic Weather Generator *)

\* 1000 * 15 * sin(hour / 24 * 2 * pi), hour = 0..23
SinTable == << 0, 3882, 7500, 10607, 12990, 14489, 15000, 14489, 12990, 10607,
               7500, 3882, 0, -3882, -7500, -10607, -12990, -14489, -15000,
               -14489, -12990, -10607, -7500, -3882 >>

dailyCycle(hour) == SinTable[hour + 1]

\* The seasons cut one month early
baseTempEarly(month) ==
    IF month >= 10 \/ month <= 0 THEN 45
    ELSE IF month >= 1 /\ month <= 3 THEN 60
    ELSE IF month >= 4 /\ month <= 6 THEN 85
    ELSE 65

baseTemp(month) ==
    IF month >= 11 \/ month <= 1 THEN 45
    ELSE IF month >= 2 /\ month <= 4 THEN 60
    ELSE IF month >= 5 /\ month <= 7 THEN 85
    ELSE 65

directions == << "N", "NNE", "NE", "ENE", "E", "ESE", "SE", "SSE",
                 "S", "SSW", "SW", "WSW", "W", "WNW", "NW", "NNW" >>

\* The bucket taken with Math.floor
getWindDirectionFloor(degrees) == directions[((degrees \div 22500) % 16) + 1]

\* degrees in thousandths of a degree
getWindDirection(degrees) == directions[(RoundDiv(degrees, 22500) % 16) + 1]

conditions == << "clear sky", "few clouds", "scattered clouds", "broken clouds",
                 "overcast clouds", "light rain", "rain" >>
icons == << "01d", "02d", "03d", "04d", "04d", "09d", "10d" >>

\* An index that rises to noon and falls after it
uvIndexNoon(hour) == Max(0, 6 - (IF hour >= 12 THEN hour - 12 ELSE 12 - hour))

uvIndex(hour) == Max(0, RoundDiv(hour - 6, 2))

\* One vector of Math.random() results, one field per call, in thousandths
DrawLow == [rv |-> 0, ci |-> 0, fl |-> 0, hum |-> 0, ws |-> 0, wd |-> 0,
            pr |-> 0, vis |-> 0, pp |-> 0, pa |-> 999]
DrawHigh == [rv |-> 999, ci |-> 999, fl |-> 999, hum |-> 999, ws |-> 999,
             wd |-> 999, pr |-> 999, vis |-> 999, pp |-> 999, pa |-> 0]
Draws == {DrawLow, DrawHigh}

ReadingFields == {"temperature", "feelsLike", "humidity", "windSpeed",
                  "windDirection", "pressure", "visibility", "uvIndex",
                  "condition", "conditionIcon", "precipitation", "sunrise",
                  "sunset"}

generateMockWeatherData(ms, u) ==
    LET hour == getHours(ms)
        temperature == baseTemp(getMonth(ms)) * 1000 + dailyCycle(hour)
                         + (u.rv - 500) * 20
        conditionIndex == (u.ci * Len(conditions)) \div 1000
    IN  [ temperature   |-> RoundDiv(temperature, 1000),
          feelsLike     |-> RoundDiv(temperature + (u.fl - 500) * 10, 1000),
          humidity      |-> RoundDiv(40000 + u.hum * 40, 1000),
          windSpeed     |-> RoundDiv(u.ws * 25, 1000),
          windDirection |-> getWindDirection(u.wd * 360),
          pressure      |-> RoundDiv(29500 + u.pr * 2, 1000),
          visibility    |-> RoundDiv(5000 + u.vis * 10, 1000),
          uvIndex       |-> uvIndex(hour),
          condition     |-> conditions[conditionIndex + 1],
          conditionIcon |-> icons[conditionIndex + 1],
          precipitation |-> IF u.pp < 300 THEN RoundDiv(u.pa * 50, 1000) ELSE 0,
          sunrise       |-> DayStart(ms) + (6 * 60 + 30) * 60000,
          sunset        |-> DayStart(ms) + (19 * 60) * 60000 ]

----------------------------------------------------------------------------
(* Upstream Weather Gateway *)

\* Coordinates are in ten-thousandths of a degree
Deg == 10 * 1000

\* The box with open edges
InBoxOpen(lat, lon) ==
    lat > 20 * Deg /\ lat < 50 * Deg /\ lon > -180 * Deg /\ lon < -60 * Deg

InBox(lat, lon) ==
    lat >= 20 * Deg /\ lat <= 50 * Deg /\ lon >= -180 * Deg /\ lon <= -60 * Deg

\* String.prototype.toLowerCase on the forecast texts of the feeds and on
\* the severities of the alerts
toLowerCase(str) ==
    CASE str = "Sunny" -> "sunny"
      [] str = "Severe" -> "severe"
      [] str = "Mostly Cloudy" -> "mostly cloudy"
      [] OTHER -> str

\* The feed entry built from one synthetic reading for slot i (0-based).
\* dt is in seconds; humidity, speed and pop are in thousandths.
MockPeriod(ms, i, u) ==
    LET mockData == generateMockWeatherData(ms, u)
    IN  [ dt       |-> ms \div 1000 + i * 24 * 60 * 60,
          temp     |-> mockData.temperature,
          temp_min |-> mockData.temperature - 10,
          temp_max |-> mockData.temperature + 10,
          humidity |-> mockData.humidity * 1000,
          main     |-> mockData.condition,
          description |-> mockData.condition,
          icon     |-> mockData.conditionIcon,
          speed    |-> mockData.windSpeed * 1000,
          pop      |-> IF mockData.precipitation > 0 THEN 300 ELSE 100 ]

\* Array.from({ length: 10 }, ...): us[i + 1] holds the draws of slot i
MockForecast(ms, us) == [i \in 1..10 |-> MockPeriod(ms, i - 1, us[i])]

\* The feed entry built from one period of the upstream forecast
LivePeriod(ms, period, u) ==
    [ dt       |-> ms \div 1000,
      temp     |-> period.temperature,
      temp_min |-> period.temperature - 5,
      temp_max |-> period.temperature + 5,
      humidity |-> 50000 + u.hum * 30,
      main     |-> period.shortForecast,
      description |-> toLowerCase(period.shortForecast),
      icon     |-> "01d",
      speed    |-> 5000 + u.ws * 15,
      pop      |-> u.pp \div 2 ]

\* The periods mapped without slice
LiveForecastUnsliced(ms, periods, us) ==
    [i \in 1..Len(periods) |-> LivePeriod(ms, periods[i], us[((i - 1) % 10) + 1])]

\* forecastData.properties.periods.slice(0, 10).map(...)
LiveForecast(ms, periods, us) ==
    [i \in 1..Min(10, Len(periods)) |-> LivePeriod(ms, periods[i], us[i])]

\* A gateway call in progress: the function, its arguments, the await it is
\* suspended at, the number of network calls it has issued, and its outcome.
GwCall(fn, lat, lon, pc, calls) ==
    [ fn |-> fn, lat |-> lat, lon |-> lon, pc |-> pc, calls |-> calls,
      ret |-> Undefined, threw |-> FALSE, live |-> FALSE,
      seen |-> <<>> ]

GwIdle == GwCall("none", 0, 0, "idle", 0)

\* `return v` of either function
GwReturn(g, v, live) ==
    [g EXCEPT !.pc = "returned", !.ret = Some(v), !.live = live]

\* The value both functions fall back to: one synthetic reading, or the
\* synthetic ten-slot feed
GwMock(g, ms, us) ==
    IF g.fn = "weather" THEN generateMockWeatherData(ms, us[1])
    ELSE MockForecast(ms, us)

\* A catch block that lets the exception escape
GwCatchRethrow(g, ms, us) == [g EXCEPT !.pc = "returned", !.threw = TRUE]

\* catch (error) { console.error(...); return <synthetic>; }
GwCatch(g, ms, us) == GwReturn(g, GwMock(g, ms, us), FALSE)

\* The synchronous prefix of fetchNWSWeatherData, up to its first await
fetchNWSWeatherData(lat, lon, ms, us) ==
    IF InBox(lat, lon)
    THEN GwCall("weather", lat, lon, "points", 1)
    ELSE GwReturn(GwCall("weather", lat, lon, "start", 0),
                  generateMockWeatherData(ms, us[1]), FALSE)

\* The synchronous prefix of fetchNWSForecastData, up to its first await
fetchNWSForecastData(lat, lon, ms, us) ==
    IF InBox(lat, lon)
    THEN GwCall("forecast", lat, lon, "points", 1)
    ELSE GwReturn(GwCall("forecast", lat, lon, "start", 0),
                  MockForecast(ms, us), FALSE)

\* Resumption after `await fetch(.../points/lat,lon)`.
\* outcome: "ok" (2xx), "notok" (other status), "reject" (network error)
GwOnPoints(g, outcome, ms, us) ==
    CASE outcome = "ok"     -> [g EXCEPT !.pc = "pointsJson"]
      [] outcome = "notok"  -> GwReturn(g, GwMock(g, ms, us), FALSE)
      [] outcome = "reject" -> GwCatch(g, ms, us)

\* A weather call that copies the text of the points body into the reading
GwOnPointsJsonObserved(g, body, ms, us) ==
    IF body = "unparseable" THEN GwCatch(g, ms, us)
    ELSE IF g.fn = "weather"
         THEN GwReturn(g, [generateMockWeatherData(ms, us[1]) EXCEPT !.condition = body],
                       TRUE)
    ELSE IF body = "malformed" THEN GwCatch(g, ms, us)
    ELSE [g EXCEPT !.pc = "forecast", !.calls = @ + 1]

\* Resumption after `await pointResponse.json()`.
\* body: "good", "malformed" (JSON without properties.forecast),
\*       "unparseable" (json() rejects)
GwOnPointsJson(g, body, ms, us) ==
    IF body = "unparseable" THEN GwCatch(g, ms, us)
    ELSE IF g.fn = "weather"
         THEN GwReturn(g, generateMockWeatherData(ms, us[1]), FALSE)
    ELSE IF body = "malformed" THEN GwCatch(g, ms, us)
    ELSE [g EXCEPT !.pc = "forecast", !.calls = @ + 1]

\* The forecast fetch resumed without the test of forecastResponse.ok
GwOnForecastUnchecked(g, outcome, ms, us) ==
    IF outcome = "reject" THEN GwCatch(g, ms, us)
    ELSE [g EXCEPT !.pc = "forecastJson"]

\* Resumption after `await fetch(pointData.properties.forecast)`
GwOnForecast(g, outcome, ms, us) ==
    CASE outcome = "ok"     -> [g EXCEPT !.pc = "forecastJson"]
      [] outcome = "notok"  -> GwReturn(g, MockForecast(ms, us), FALSE)
      [] outcome = "reject" -> GwCatch(g, ms, us)

\* Resumption after `await forecastResponse.json()`.
\* body.kind: "unparseable" (json() rejects), "malformed" (no periods
\*            array), "feed" (body.periods is the array)
GwOnForecastJson(g, body, ms, us) ==
    IF body.kind # "feed" THEN GwCatch(g, ms, us)
    ELSE GwReturn(g, LiveForecast(ms, body.periods, us), TRUE)

\* The upstream answers a stand-alone call has consumed, kept for reference
GwSaw(g, o) == [g EXCEPT !.seen = Append(@, o)]

----------------------------------------------------------------------------
(* Inputs of the gateway *)

LatInputs == {199999, 20 * Deg, 35 * Deg, 50 * Deg, 500001}
LonInputs == {-1800001, -180 * Deg, -100 * Deg, -60 * Deg, -599999}

FetchOutcomes == {"ok", "notok", "reject"}
JsonBodies == {"good", "malformed", "unparseable"}

\* The draws of the ten slots of one feed
DrawSeqs == { [i \in 1..10 |-> DrawLow], [i \in 1..10 |-> DrawHigh],
              [i \in 1..10 |-> IF i % 2 = 1 THEN DrawLow ELSE DrawHigh] }

\* An upstream forecast of n periods
Feed(n) == [i \in 1..n |-> [ temperature |-> 60 + i,
                              shortForecast |-> IF i % 2 = 1 THEN "Sunny"
                                                ELSE "Mostly Cloudy" ]]

MaxFeed == 11         \* periods of the longest upstream forecast

ForecastBodies == { [kind |-> "unparseable", periods |-> <<>>],
                    [kind |-> "malformed", periods |-> <<>>],
                    [kind |-> "feed", periods |-> Feed(0)],
                    [kind |-> "feed", periods |-> Feed(3)],
                    [kind |-> "feed", periods |-> Feed(MaxFeed)] }

----------------------------------------------------------------------------
(* MemStorage *)

Location(id, name, country, state, lat, lon, zipCode) ==
    [ id |-> id, name |-> name, country |-> country, state |-> state,
      lat |-> lat, lon |-> lon, zipCode |-> zipCode ]

\* The constructor: three default locations, ids from randomUUID()
\* A name is the list of the parts of its text, see nameChars
defaultLocations ==
    << Location(1, <<"New York">>, "US", "NY", 407128, -740060, "10001"),
       Location(2, <<"Los Angeles">>, "US", "CA", 340522, -1182437, "90001"),
       Location(3, <<"Chicago">>, "US", "IL", 418781, -876298, "60601") >>

Keys(map) == {map[i].id : i \in 1..Len(map)}

\* randomUUID(): an identifier no record of the map has.  No record is ever
\* removed, so the size of the map plus one is fresh.
randomUUID(map) == Len(map) + 1

\* Map.get(id)
MapGet(map, id) ==
    IF \E i \in 1..Len(map) : map[i].id = id
    THEN Some(map[CHOOSE i \in 1..Len(map) : map[i].id = id])
    ELSE Undefined

\* Map.set(rec.id, rec): replaces in place, or appends a new key
MapSet(map, rec) ==
    IF \E i \in 1..Len(map) : map[i].id = rec.id
    THEN [i \in 1..Len(map) |-> IF map[i].id = rec.id THEN rec ELSE map[i]]
    ELSE Append(map, rec)

\* A lookup that answers the first location for an id the map lacks
getLocationOrFirst(locs, id) ==
    IF IsDefined(MapGet(locs, id)) THEN MapGet(locs, id) ELSE Some(locs[1])

getLocation(locs, id) == MapGet(locs, id)

\* Array.from(values).find(weather => weather.locationId === locationId)
getWeatherData(wd, locationId) ==
    LET hits == {i \in 1..Len(wd) : wd[i].locationId = locationId}
    IN  IF hits = {} THEN Undefined
        ELSE Some(wd[CHOOSE i \in hits : \A j \in hits : i <= j])

\* createWeatherData without its this.weatherData.set(id, weatherData)
createWeatherDataUnstored(wd, insertWeatherData, ms) ==
    LET created == [id |-> randomUUID(wd), lastUpdated |-> ms] @@ insertWeatherData
    IN  [map |-> wd, ret |-> Some(created)]

\* createWeatherData: the map after the call and the record returned
createWeatherData(wd, insertWeatherData, ms) ==
    LET created == [id |-> randomUUID(wd), lastUpdated |-> ms] @@ insertWeatherData
    IN  [map |-> MapSet(wd, created), ret |-> Some(created)]

\* updateWeatherData without the lastUpdated stamp
updateWeatherDataUnstamped(wd, existing, updates, ms) ==
    IF IsDefined(existing)
    THEN LET updated == updates @@ Get(existing)
         IN  [map |-> MapSet(wd, updated), ret |-> Some(updated)]
    ELSE [map |-> wd, ret |-> Undefined]

\* updateWeatherData that drops the old record and stores the update under
\* a new identifier
updateWeatherDataRekeyed(wd, existing, updates, ms) ==
    IF IsDefined(existing)
    THEN LET updated == [id |-> Len(wd) + 100, lastUpdated |-> ms] @@ updates @@ Get(existing)
         IN  [map |-> [i \in 1..Len(wd) |-> IF wd[i].id = Get(existing).id
                                            THEN updated ELSE wd[i]],
              ret |-> Some(updated)]
    ELSE [map |-> wd, ret |-> Undefined]

\* updateWeatherData after its await, `existing` being what its
\* getWeatherData found: the map after the call and the value returned
updateWeatherData(wd, existing, updates, ms) ==
    IF IsDefined(existing)
    THEN LET updated == [lastUpdated |-> ms] @@ updates @@ Get(existing)
         IN  [map |-> MapSet(wd, updated), ret |-> Some(updated)]
    ELSE [map |-> wd, ret |-> Undefined]

Readings(wd, locationId) == {i \in 1..Len(wd) : wd[i].locationId = locationId}

----------------------------------------------------------------------------
(* GET /api/weather/:locationId *)

\* The :locationId values clients send: an id no location has, the first
\* default location, and the id of the first location a by-coordinates
\* request adds (unknown until then)
RequestIds == {0, defaultLocations[1].id, Len(defaultLocations) + 1}

Response(status, location, weather) ==
    [status |-> status, location |-> location, weather |-> weather]

\* A handler's locals, and the clock value its freshness check read while
\* the fetch it decided on is under way
HIdle ==
    [ pc |-> "idle", locationId |-> 0, location |-> Undefined,
      weatherData |-> Undefined, gw |-> GwIdle, existing |-> Undefined,
      newWeatherData |-> Undefined, result |-> Undefined, res |-> Undefined,
      checkedAt |-> 0 ]

\* A check that fetches for a missing reading only
NeedsFetchMissing(weather, ms) == ~IsDefined(weather)

\* The threshold written in seconds against a difference in milliseconds
NeedsFetchSeconds(weather, ms) ==
    ~IsDefined(weather) \/ (ms - Get(weather).lastUpdated) > 30 * 60

\* The comparison written with >=
NeedsFetchInclusive(weather, ms) ==
    ~IsDefined(weather) \/ (ms - Get(weather).lastUpdated) >= StaleMs

\* !weatherData || (Date.now() - weatherData.lastUpdated.getTime()) > 30 * 60 * 1000
NeedsFetch(weather, ms) ==
    ~IsDefined(weather) \/ (ms - Get(weather).lastUpdated) > StaleMs

\* The request arrives: `await storage.getLocation(locationId)`
WeatherRequest(h) ==
    /\ hs[h].pc = "idle"
    /\ \E id \in RequestIds :
         hs' = [hs EXCEPT ![h] = [HIdle EXCEPT !.pc = "getLocation",
                                               !.locationId = id,
                                               !.location = getLocation(locations, id)]]
    /\ UNCHANGED <<now, locations, weatherData, geo, gw, boot, otherStores, client>>

\* 404 for an unknown location, else `await storage.getWeatherData(locationId)`
WeatherGotLocation(h) ==
    /\ hs[h].pc = "getLocation"
    /\ hs' = [hs EXCEPT ![h] =
                IF ~IsDefined(hs[h].location)
                THEN [@ EXCEPT !.pc = "done",
                               !.res = Some(Response(404, Undefined, Undefined))]
                ELSE [@ EXCEPT !.pc = "getWeatherData",
                               !.weatherData = getWeatherData(weatherData, hs[h].locationId)]]
    /\ UNCHANGED <<now, locations, weatherData, geo, gw, boot, otherStores, client>>

\* The freshness check with coalescing: a handler that finds another
\* handler already fetching for the same location issues no call of its own
WeatherCheckCoalesced(h) ==
    /\ hs[h].pc = "getWeatherData"
    /\ IF NeedsFetch(hs[h].weatherData, NowMs)
       THEN \E u \in Draws :
              hs' = [hs EXCEPT ![h] =
                       [@ EXCEPT !.pc = "fetch", !.checkedAt = NowMs,
                                 !.gw = IF \E o \in Handlers \ {h} :
                                              /\ hs[o].pc = "fetch"
                                              /\ hs[o].locationId = hs[h].locationId
                                        THEN GwReturn(GwCall("weather", 0, 0, "joined", 0),
                                                      generateMockWeatherData(NowMs, u), FALSE)
                                        ELSE fetchNWSWeatherData(Get(hs[h].location).lat,
                                                                 Get(hs[h].location).lon,
                                                                 NowMs, <<u>>)]]
       ELSE hs' = [hs EXCEPT ![h] =
                     [@ EXCEPT !.pc = "done",
                               !.res = Some(Response(200, hs[h].location,
                                                     hs[h].weatherData))]]
    /\ UNCHANGED <<now, locations, weatherData, geo, gw, boot, otherStores, client>>

\* The freshness check: answer from the store, or call fetchNWSWeatherData
WeatherCheck(h) ==
    /\ hs[h].pc = "getWeatherData"
    /\ IF NeedsFetch(hs[h].weatherData, NowMs)
       THEN \E u \in Draws :
              hs' = [hs EXCEPT ![h] =
                       [@ EXCEPT !.pc = "fetch", !.checkedAt = NowMs,
                                 !.gw = fetchNWSWeatherData(Get(hs[h].location).lat,
                                                            Get(hs[h].location).lon,
                                                            NowMs, <<u>>)]]
       ELSE hs' = [hs EXCEPT ![h] =
                     [@ EXCEPT !.pc = "done",
                               !.res = Some(Response(200, hs[h].location,
                                                     hs[h].weatherData))]]
    /\ UNCHANGED <<now, locations, weatherData, geo, gw, boot, otherStores, client>>

\* The points lookup of the handler's gateway call answers
WeatherPoints(h) ==
    /\ hs[h].pc = "fetch"
    /\ hs[h].gw.pc = "points"
    /\ \E outcome \in FetchOutcomes, u \in Draws :
         hs' = [hs EXCEPT ![h].gw = GwOnPoints(@, outcome, NowMs, <<u>>)]
    /\ UNCHANGED <<now, locations, weatherData, geo, gw, boot, otherStores, client>>

\* The body of the points lookup is parsed
WeatherPointsJson(h) ==
    /\ hs[h].pc = "fetch"
    /\ hs[h].gw.pc = "pointsJson"
    /\ \E body \in JsonBodies, u \in Draws :
         hs' = [hs EXCEPT ![h].gw = GwOnPointsJson(@, body, NowMs, <<u>>)]
    /\ UNCHANGED <<now, locations, weatherData, geo, gw, boot, otherStores, client>>

\* fetchNWSWeatherData has returned: build newWeatherData, then call
\* updateWeatherData (up to its own await) or createWeatherData
WeatherFetched(h) ==
    /\ hs[h].pc = "fetch"
    /\ hs[h].gw.pc = "returned"
    /\ IF hs[h].gw.threw
       THEN /\ hs' = [hs EXCEPT ![h] =
                        [@ EXCEPT !.pc = "done", !.gw = GwIdle, !.checkedAt = 0,
                                  !.res = Some(Response(500, Undefined, Undefined))]]
            /\ UNCHANGED weatherData
       ELSE LET newWeatherData == [locationId |-> hs[h].locationId] @@ Get(hs[h].gw.ret)
            IN  IF IsDefined(hs[h].weatherData)
                THEN /\ hs' = [hs EXCEPT ![h] =
                                 [@ EXCEPT !.pc = "updateWeatherData", !.gw = GwIdle,
                                           !.newWeatherData = Some(newWeatherData),
                                           !.existing = getWeatherData(weatherData, hs[h].locationId)]]
                     /\ UNCHANGED weatherData
                ELSE LET created == createWeatherData(weatherData, newWeatherData, NowMs)
                     IN  /\ weatherData' = created.map
                         /\ hs' = [hs EXCEPT ![h] =
                                     [@ EXCEPT !.pc = "respond", !.gw = GwIdle,
                                               !.newWeatherData = Some(newWeatherData),
                                               !.result = created.ret]]
    /\ UNCHANGED <<now, locations, geo, gw, boot, otherStores, client>>

\* updateWeatherData resumes after `await this.getWeatherData(locationId)`
WeatherUpdate(h) ==
    /\ hs[h].pc = "updateWeatherData"
    /\ LET updated == updateWeatherData(weatherData, hs[h].existing,
                                        Get(hs[h].newWeatherData), NowMs)
       IN  /\ weatherData' = updated.map
           /\ hs' = [hs EXCEPT ![h] = [@ EXCEPT !.pc = "respond",
                                                !.result = updated.ret]]
    /\ UNCHANGED <<now, locations, geo, gw, boot, otherStores, client>>

\* weatherData = await storage.update/createWeatherData(...); 503 or 200
WeatherRespond(h) ==
    /\ hs[h].pc = "respond"
    /\ hs' = [hs EXCEPT ![h] =
                [@ EXCEPT !.pc = "done", !.checkedAt = 0,
                          !.weatherData = hs[h].result,
                          !.res = IF IsDefined(hs[h].result)
                                  THEN Some(Response(200, hs[h].location, hs[h].result))
                                  ELSE Some(Response(503, Undefined, Undefined))]]
    /\ UNCHANGED <<now, locations, weatherData, geo, gw, boot, otherStores, client>>

\* The response has been sent; the slot serves the next request
WeatherDone(h) ==
    /\ hs[h].pc = "done"
    /\ hs' = [hs EXCEPT ![h] = HIdle]
    /\ UNCHANGED <<now, locations, weatherData, geo, gw, boot, otherStores, client>>

----------------------------------------------------------------------------
(* GET /api/locations/by-coordinates *)

NaN == Undefined

\* parseFloat on the texts of the query parameters: the longest numeric
\* prefix, NaN when there is none; a missing parameter is read as the text
\* "undefined".  The result is in ten-thousandths of a degree.
parseFloat(text) ==
    CASE text = "undefined" -> NaN
      [] text = ""          -> NaN
      [] text = "abc"       -> NaN
      [] text = "35"        -> Some(35 * Deg)
      [] text = "35.0xyz"   -> Some(35 * Deg)
      [] text = "-100"      -> Some(-100 * Deg)
      [] text = "51.5"      -> Some(515000)
      [] text = "-0.12"     -> Some(-1200)
      [] text = "95"        -> Some(95 * Deg)
      [] text = "200"       -> Some(200 * Deg)

\* The lat and lon query parameters clients send
GeoQueries ==
    { [lat |-> "abc", lon |-> "-100"],
      [lat |-> "35", lon |-> "undefined"],
      [lat |-> "", lon |-> ""],
      [lat |-> "35", lon |-> "-100"],
      [lat |-> "35.0xyz", lon |-> "-100"],
      [lat |-> "51.5", lon |-> "-0.12"],
      [lat |-> "95", lon |-> "200"] }

\* The test with a range check added: latitudes beyond 90 and longitudes
\* beyond 180 degrees are refused as well
InvalidCoordinatesOrRange(lat, lon) ==
    \/ lat = NaN
    \/ lon = NaN
    \/ Get(lat) < -90 * Deg
    \/ Get(lat) > 90 * Deg
    \/ Get(lon) < -180 * Deg
    \/ Get(lon) > 180 * Deg

\* isNaN(lat) || isNaN(lon)
InvalidCoordinates(lat, lon) == lat = NaN \/ lon = NaN

\* data.properties?.relativeLocation?.properties?.city || ...state || "Location"
GeoNames == {"Wichita", "Location"}

GeoIdle == [pc |-> "idle", lat |-> NaN, lon |-> NaN, res |-> Undefined, calls |-> 0]

\* Number.prototype.toFixed(2) of a coordinate: hundredths of a degree
toFixed2(x) == IF x >= 0 THEN RoundDiv(x, 100) ELSE 0 - RoundDiv(0 - x, 100)

\* storage.createLocation(insertLocation), then the handler's await on it
GeoCreate(g, name, country) ==
    LET location == Location(randomUUID(locations), name, country, "",
                             Get(g.lat), Get(g.lon), "null")
    IN  /\ locations' = MapSet(locations, location)
        /\ geo' = [g EXCEPT !.pc = "respond",
                            !.res = Some(Response(200, Some(location), Undefined))]

\* The fallback branch: a location named after its coordinates
GeoFallback(g) ==
    GeoCreate(g, <<"Location", toFixed2(Get(g.lat)), toFixed2(Get(g.lon))>>, "Unknown")

\* The request arrives: parse, 400, the box test, the points lookup
GeoRequest ==
    /\ geo.pc = "idle"
    /\ Len(locations) < MaxLocations
    /\ \E q \in GeoQueries :
         LET g == [GeoIdle EXCEPT !.lat = parseFloat(q.lat), !.lon = parseFloat(q.lon)]
         IN  IF InvalidCoordinates(g.lat, g.lon)
             THEN /\ geo' = [g EXCEPT !.pc = "done",
                                      !.res = Some(Response(400, Undefined, Undefined))]
                  /\ UNCHANGED locations
             ELSE IF InBox(Get(g.lat), Get(g.lon))
             THEN /\ geo' = [g EXCEPT !.pc = "points", !.calls = 1]
                  /\ UNCHANGED locations
             ELSE GeoFallback(g)
    /\ UNCHANGED <<now, weatherData, hs, gw, boot, otherStores, client>>

\* The reverse-geocoding lookup answers
GeoPoints ==
    /\ geo.pc = "points"
    /\ \E outcome \in FetchOutcomes :
         IF outcome = "ok"
         THEN /\ geo' = [geo EXCEPT !.pc = "json"]
              /\ UNCHANGED locations
         ELSE GeoFallback(geo)
    /\ UNCHANGED <<now, weatherData, hs, gw, boot, otherStores, client>>

\* Its body is parsed: a named US location, or the fallback when json() rejects
GeoJson ==
    /\ geo.pc = "json"
    /\ \E body \in {"good", "unparseable"} :
         IF body = "unparseable"
         THEN GeoFallback(geo)
         ELSE \E name \in GeoNames : GeoCreate(geo, <<name>>, "US")
    /\ UNCHANGED <<now, weatherData, hs, gw, boot, otherStores, client>>

\* res.json(location) after `await storage.createLocation(...)`
GeoRespond ==
    /\ geo.pc = "respond"
    /\ geo' = [geo EXCEPT !.pc = "done"]
    /\ UNCHANGED <<now, locations, weatherData, hs, gw, boot, otherStores, client>>

GeoDone ==
    /\ geo.pc = "done"
    /\ geo' = GeoIdle
    /\ UNCHANGED <<now, locations, weatherData, hs, gw, boot, otherStores, client>>

----------------------------------------------------------------------------
(* GET /api/forecast/:locationId and GET /api/hourly/:locationId *)

\* new Date(ms).toDateString(): the local calendar day of an instant, named
\* by the number of local midnights since the day of tick 0
toDateString(ms) == (boot.minute + ms \div 60000) \div 1440

FeedResponse(status, body) == [status |-> status, body |-> body]

\* The locals of a forecast or hourly handler
FIdle ==
    [ route |-> "none", pc |-> "idle", locationId |-> 0, location |-> Undefined,
      gw |-> GwIdle, forecastDataList |-> Undefined, res |-> Undefined ]

\* !forecastDataList with every array, the empty one too, counted as absent
IsFalsyOrEmpty(o) == ~IsDefined(o) \/ Get(o) = <<>>

\* !forecastDataList: true for undefined only, every array is truthy
IsFalsy(o) == ~IsDefined(o)

\* The object pushed to dailyForecasts for one feed entry.  pop and speed
\* are in thousandths, forecastDate is in milliseconds.
DailyEntry(locationId, item) ==
    [ locationId    |-> locationId,
      forecastDate  |-> item.dt * 1000,
      highTemp      |-> RoundDiv(item.temp_max, 1),
      lowTemp       |-> RoundDiv(item.temp_min, 1),
      condition     |-> item.description,
      conditionIcon |-> item.icon,
      precipitation |-> RoundDiv(item.pop, 10),
      windSpeed     |-> RoundDiv(item.speed, 1000),
      humidity      |-> item.humidity ]

\* for (const item of forecastDataList) { ... } from entry i on
RECURSIVE DailyLoop(_, _, _, _, _)
DailyLoop(locationId, list, i, processedDates, daily) ==
    IF i > Len(list) THEN daily
    ELSE LET item == list[i]
             dateStr == toDateString(item.dt * 1000)
         IN  IF dateStr \notin processedDates /\ Len(daily) < 5
             THEN DailyLoop(locationId, list, i + 1, processedDates \cup {dateStr},
                            Append(daily, DailyEntry(locationId, item)))
             ELSE DailyLoop(locationId, list, i + 1, processedDates, daily)

\* The first five entries of the feed, whatever their dates
dailyForecastsLeading(locationId, list) ==
    [i \in 1..Min(5, Len(list)) |-> DailyEntry(locationId, list[i])]

\* dailyForecasts after the loop
dailyForecasts(locationId, list) == DailyLoop(locationId, list, 1, {}, <<>>)

\* The object one feed entry maps to in hourlyForecasts
HourlyEntry(locationId, item) ==
    [ locationId    |-> locationId,
      forecastTime  |-> item.dt * 1000,
      temperature   |-> RoundDiv(item.temp, 1),
      condition     |-> item.description,
      conditionIcon |-> item.icon,
      precipitation |-> RoundDiv(item.pop, 10),
      windSpeed     |-> RoundDiv(item.speed, 1000) ]

\* The whole feed mapped, without slice
hourlyForecastsUnsliced(locationId, list) ==
    [i \in 1..Len(list) |-> HourlyEntry(locationId, list[i])]

\* forecastDataList.slice(0, 8).map(...)
hourlyForecasts(locationId, list) ==
    [i \in 1..Min(8, Len(list)) |-> HourlyEntry(locationId, list[i])]

\* A forecast request arrives: `await storage.getLocation(locationId)`
ForecastRequest(h) ==
    /\ hs[h].pc = "idle"
    /\ \E id \in RequestIds :
         hs' = [hs EXCEPT ![h] = [FIdle EXCEPT !.route = "forecast",
                                               !.pc = "feedLocation",
                                               !.locationId = id,
                                               !.location = getLocation(locations, id)]]
    /\ UNCHANGED <<now, locations, weatherData, geo, gw, boot, otherStores, client>>

\* An hourly request arrives: `await storage.getLocation(locationId)`
HourlyRequest(h) ==
    /\ hs[h].pc = "idle"
    /\ \E id \in RequestIds :
         hs' = [hs EXCEPT ![h] = [FIdle EXCEPT !.route = "hourly",
                                               !.pc = "feedLocation",
                                               !.locationId = id,
                                               !.location = getLocation(locations, id)]]
    /\ UNCHANGED <<now, locations, weatherData, geo, gw, boot, otherStores, client>>

\* 404 for an unknown location, else the call of fetchNWSForecastData
FeedGotLocation(h) ==
    /\ hs[h].pc = "feedLocation"
    /\ IF ~IsDefined(hs[h].location)
       THEN hs' = [hs EXCEPT ![h] =
                     [@ EXCEPT !.pc = "feedDone",
                               !.res = Some(FeedResponse(404, Undefined))]]
       ELSE \E us \in DrawSeqs :
              hs' = [hs EXCEPT ![h] =
                       [@ EXCEPT !.pc = "feedFetch",
                                 !.gw = fetchNWSForecastData(Get(hs[h].location).lat,
                                                             Get(hs[h].location).lon,
                                                             NowMs, us)]]
    /\ UNCHANGED <<now, locations, weatherData, geo, gw, boot, otherStores, client>>

\* The points lookup of the handler's gateway call answers
FeedPoints(h) ==
    /\ hs[h].pc = "feedFetch"
    /\ hs[h].gw.pc = "points"
    /\ \E outcome \in FetchOutcomes, us \in DrawSeqs :
         hs' = [hs EXCEPT ![h].gw = GwOnPoints(@, outcome, NowMs, us)]
    /\ UNCHANGED <<now, locations, weatherData, geo, gw, boot, otherStores, client>>

\* The body of the points lookup is parsed
FeedPointsJson(h) ==
    /\ hs[h].pc = "feedFetch"
    /\ hs[h].gw.pc = "pointsJson"
    /\ \E body \in JsonBodies, us \in DrawSeqs :
         hs' = [hs EXCEPT ![h].gw = GwOnPointsJson(@, body, NowMs, us)]
    /\ UNCHANGED <<now, locations, weatherData, geo, gw, boot, otherStores, client>>

\* The forecast fetch answers
FeedForecast(h) ==
    /\ hs[h].pc = "feedFetch"
    /\ hs[h].gw.pc = "forecast"
    /\ \E outcome \in FetchOutcomes, us \in DrawSeqs :
         hs' = [hs EXCEPT ![h].gw = GwOnForecast(@, outcome, NowMs, us)]
    /\ UNCHANGED <<now, locations, weatherData, geo, gw, boot, otherStores, client>>

\* The body of the forecast is parsed
FeedForecastJson(h) ==
    /\ hs[h].pc = "feedFetch"
    /\ hs[h].gw.pc = "forecastJson"
    /\ \E body \in ForecastBodies, us \in DrawSeqs :
         hs' = [hs EXCEPT ![h].gw = GwOnForecastJson(@, body, NowMs, us)]
    /\ UNCHANGED <<now, locations, weatherData, geo, gw, boot, otherStores, client>>

\* What a handler does once fetchNWSForecastData has settled: 500 from the
\* outer catch, 503 for a falsy list, else the summary
FeedAnswer(h, summary) ==
    IF hs[h].gw.threw
    THEN [hs[h] EXCEPT !.pc = "feedDone", !.gw = GwIdle,
                       !.res = Some(FeedResponse(500, Undefined))]
    ELSE IF IsFalsy(hs[h].gw.ret)
    THEN [hs[h] EXCEPT !.pc = "feedDone", !.gw = GwIdle,
                       !.res = Some(FeedResponse(503, Undefined))]
    ELSE [hs[h] EXCEPT !.pc = "feedDone", !.gw = GwIdle,
                       !.forecastDataList = hs[h].gw.ret,
                       !.res = Some(FeedResponse(200, Some(summary)))]

\* A forecast handler that also stores the summary it answers
ForecastRespondCached(h) ==
    /\ hs[h].pc = "feedFetch"
    /\ hs[h].route = "forecast"
    /\ hs[h].gw.pc = "returned"
    /\ hs' = [hs EXCEPT ![h] =
                FeedAnswer(h, IF IsDefined(hs[h].gw.ret)
                              THEN dailyForecasts(hs[h].locationId, Get(hs[h].gw.ret))
                              ELSE <<>>)]
    /\ forecastData' = IF IsDefined(hs[h].gw.ret)
                       THEN forecastData \o dailyForecasts(hs[h].locationId,
                                                           Get(hs[h].gw.ret))
                       ELSE forecastData
    /\ UNCHANGED <<now, locations, weatherData, geo, gw, boot, weatherAlerts,
                   hourlyForecast, client>>

\* The forecast handler resumes with the feed and answers the daily summary
ForecastRespond(h) ==
    /\ hs[h].pc = "feedFetch"
    /\ hs[h].route = "forecast"
    /\ hs[h].gw.pc = "returned"
    /\ hs' = [hs EXCEPT ![h] =
                FeedAnswer(h, IF IsDefined(hs[h].gw.ret)
                              THEN dailyForecasts(hs[h].locationId, Get(hs[h].gw.ret))
                              ELSE <<>>)]
    /\ UNCHANGED <<now, locations, weatherData, geo, gw, boot, otherStores, client>>

\* The hourly handler resumes with the feed and answers the hourly summary
HourlyRespond(h) ==
    /\ hs[h].pc = "feedFetch"
    /\ hs[h].route = "hourly"
    /\ hs[h].gw.pc = "returned"
    /\ hs' = [hs EXCEPT ![h] =
                FeedAnswer(h, IF IsDefined(hs[h].gw.ret)
                              THEN hourlyForecasts(hs[h].locationId, Get(hs[h].gw.ret))
                              ELSE <<>>)]
    /\ UNCHANGED <<now, locations, weatherData, geo, gw, boot, otherStores, client>>

\* The response has been sent; the slot serves the next request
FeedDone(h) ==
    /\ hs[h].pc = "feedDone"
    /\ hs' = [hs EXCEPT ![h] = HIdle]
    /\ UNCHANGED <<now, locations, weatherData, geo, gw, boot, otherStores, client>>

----------------------------------------------------------------------------
(* GET /api/locations/search *)

MaxQuery == 2         \* characters of the longest q

\* The characters of the texts the store holds
Chars(str) ==
    CASE str = "New York"    -> <<"N", "e", "w", " ", "Y", "o", "r", "k">>
      [] str = "Los Angeles" -> <<"L", "o", "s", " ", "A", "n", "g", "e", "l", "e", "s">>
      [] str = "Chicago"     -> <<"C", "h", "i", "c", "a", "g", "o">>
      [] str = "Wichita"     -> <<"W", "i", "c", "h", "i", "t", "a">>
      [] str = "Location"    -> <<"L", "o", "c", "a", "t", "i", "o", "n">>
      [] str = "NY"          -> <<"N", "Y">>
      [] str = "CA"          -> <<"C", "A">>
      [] str = "IL"          -> <<"I", "L">>
      [] str = "10001"       -> <<"1", "0", "0", "0", "1">>
      [] str = "90001"       -> <<"9", "0", "0", "0", "1">>
      [] str = "60601"       -> <<"6", "0", "6", "0", "1">>
      [] str = ""            -> <<>>

DigitChars == <<"0", "1", "2", "3", "4", "5", "6", "7", "8", "9">>

\* The decimal digits of a natural number
RECURSIVE Digits(_)
Digits(n) ==
    IF n < 10 THEN <<DigitChars[n + 1]>>
    ELSE Digits(n \div 10) \o <<DigitChars[(n % 10) + 1]>>

\* The text toFixed(2) gives for x hundredths
FixedChars(x) ==
    LET a == IF x < 0 THEN 0 - x ELSE x
    IN  (IF x < 0 THEN <<"-">> ELSE <<>>) \o Digits(a \div 100) \o <<".">>
          \o <<DigitChars[((a \div 10) % 10) + 1], DigitChars[(a % 10) + 1]>>

\* The text of a name: one part, or `Location (${lat.toFixed(2)}, ${lon.toFixed(2)})`
nameChars(name) ==
    IF Len(name) = 1 THEN Chars(name[1])
    ELSE Chars(name[1]) \o <<" ", "(">> \o FixedChars(name[2]) \o <<",", " ">>
           \o FixedChars(name[3]) \o <<")">>

\* String.prototype.toLowerCase, character by character
lowerChar(c) ==
    CASE c = "A" -> "a" [] c = "C" -> "c" [] c = "I" -> "i" [] c = "L" -> "l"
      [] c = "N" -> "n" [] c = "W" -> "w" [] c = "Y" -> "y" [] OTHER -> c

lower(cs) == [i \in 1..Len(cs) |-> lowerChar(cs[i])]

\* String.prototype.includes
includes(hay, needle) ==
    \E i \in 0..(Len(hay) - Len(needle)) : SubSeq(hay, i + 1, i + Len(needle)) = needle

\* The characters a q is made of
QueryChars == {"n", "N", "y", "e", "1", "0", "x"}

RECURSIVE Texts(_)
\* The texts of at most n characters
Texts(n) ==
    IF n = 0 THEN {<<>>}
    ELSE Texts(n - 1) \cup {Append(t, c) : t \in Texts(n - 1), c \in QueryChars}

\* req.query.q: missing, or a text of at most MaxQuery characters
SearchQueries == {Undefined} \cup {Some(t) : t \in Texts(MaxQuery)}

\* The locals of a search handler
SIdle == [pc |-> "idle", query |-> Undefined, found |-> Undefined, res |-> Undefined]

\* A test for the missing q only
NotQueryMissing(q) == ~IsDefined(q)

\* !query: q is missing or the empty string
NotQuery(q) == ~IsDefined(q) \/ Get(q) = <<>>

\* storage.getLocationsByQuery(query)
getLocationsByQuery(locs, query) ==
    LET queryLower == lower(query)
        Matches(location) ==
            \/ includes(lower(nameChars(location.name)), queryLower)
            \/ includes(lower(Chars(location.state)), queryLower)
            \/ (location.zipCode # "null" /\ includes(Chars(location.zipCode), query))
        matching == SelectSeq(locs, Matches)
    IN  SubSeq(matching, 1, Min(5, Len(matching)))

\* The request arrives: 400, or the call of getLocationsByQuery and its await
SearchRequest(h) ==
    /\ hs[h].pc = "idle"
    /\ \E q \in SearchQueries :
         hs' = [hs EXCEPT ![h] =
                  IF NotQuery(q)
                  THEN [SIdle EXCEPT !.pc = "searchDone", !.query = q,
                                     !.res = Some(FeedResponse(400, Undefined))]
                  ELSE [SIdle EXCEPT !.pc = "searchQuery", !.query = q,
                                     !.found = Some(getLocationsByQuery(locations, Get(q)))]]
    /\ UNCHANGED <<now, locations, weatherData, geo, gw, boot, otherStores, client>>

\* res.json(locations)
SearchRespond(h) ==
    /\ hs[h].pc = "searchQuery"
    /\ hs' = [hs EXCEPT ![h] = [@ EXCEPT !.pc = "searchDone",
                                         !.res = Some(FeedResponse(200, hs[h].found))]]
    /\ UNCHANGED <<now, locations, weatherData, geo, gw, boot, otherStores, client>>

\* The response has been sent; the slot serves the next request
SearchDone(h) ==
    /\ hs[h].pc = "searchDone"
    /\ hs' = [hs EXCEPT ![h] = HIdle]
    /\ UNCHANGED <<now, locations, weatherData, geo, gw, boot, otherStores, client>>

----------------------------------------------------------------------------
(* The alert notification hook, used by WeatherAlerts.  A render fixes the   *)
(* values its closures see; state updates are queued and applied by the     *)
(* next render; the effects of a render run after it, in declaration order. *)

HourMs == 60 * 60 * 1000
DayMs == 24 * HourMs

\* The severities the alerts of the feed carry
Severities == {"severe", "Severe", "moderate", "minor"}

\* A WeatherAlert as the client receives it; the times are in milliseconds
WeatherAlert(id, severity, startTime, endTime) ==
    [id |-> id, severity |-> severity, startTime |-> startTime, endTime |-> endTime]

\* The hook after the first render at time ms: useState, useRef, and the
\* query without data
HookMounted(stored, ms) ==
    [ enabled |-> TRUE,          \* settings.notificationsEnabled of the last render
      alerts |-> <<>>,           \* `alerts` of the last render
      shownAlertIds |-> {},      \* notificationState of the last render
      lastCheck |-> ms,
      pending |-> <<>>,          \* the queued setNotificationState updaters
      previousAlerts |-> <<>>,   \* previousAlertsRef.current
      loadDue |-> TRUE,          \* the mount effect has not run yet
      effectDue |-> TRUE,        \* the effect of WeatherAlerts has not run yet
      stored |-> stored,         \* shownAlertIds under NOTIFICATION_STORAGE_KEY
      toasts |-> <<>> ]          \* the alerts toast() was called for

\* A test without the look-up of the shown ids
shouldNotifyForAlertRepeat(h, alert, ms) ==
    IF ~h.enabled THEN FALSE
    ELSE IF alert.endTime < ms THEN FALSE
    ELSE IF toLowerCase(alert.severity) = "severe" THEN TRUE
    ELSE IF toLowerCase(alert.severity) = "moderate"
         THEN alert.startTime > ms - HourMs
    ELSE FALSE

shouldNotifyForAlert(h, alert, ms) ==
    IF ~h.enabled THEN FALSE
    ELSE IF alert.endTime < ms THEN FALSE
    ELSE IF alert.id \in h.shownAlertIds THEN FALSE
    ELSE IF toLowerCase(alert.severity) = "severe" THEN TRUE
    ELSE IF toLowerCase(alert.severity) = "moderate"
         THEN alert.startTime > ms - HourMs
    ELSE FALSE

\* showAlertNotification for each alert of `shown`: the toast, and the
\* queued updater that marks the alert as shown
showAlertNotification(h, shown, ms) ==
    [h EXCEPT !.toasts = @ \o shown,
              !.pending = @ \o [i \in 1..Len(shown) |->
                                  [op |-> "add", ids |-> {shown[i].id}, at |-> ms]]]

checkForNewAlerts(h, currentAlerts, ms) ==
    IF ~h.enabled THEN h
    ELSE LET previousAlerts == h.previousAlerts
             Known(alert) ==
                 \E i \in 1..Len(previousAlerts) : previousAlerts[i].id = alert.id
             prevAlert(alert) ==
                 previousAlerts[CHOOSE i \in 1..Len(previousAlerts) :
                                    /\ previousAlerts[i].id = alert.id
                                    /\ \A j \in 1..(i - 1) :
                                          previousAlerts[j].id # alert.id]
             IsNew(alert) == ~Known(alert) /\ shouldNotifyForAlert(h, alert, ms)
             IsChange(alert) ==
                 /\ Known(alert)
                 /\ prevAlert(alert).severity # alert.severity
                 /\ shouldNotifyForAlert(h, alert, ms)
             newAlerts == SelectSeq(currentAlerts, IsNew)
             severityChanges == SelectSeq(currentAlerts, IsChange)
         IN  [showAlertNotification(h, newAlerts \o severityChanges, ms)
                EXCEPT !.previousAlerts = currentAlerts]

\* One queued updater applied to the notification state
ApplyUpdater(state, u) ==
    CASE u.op = "load"  -> [state EXCEPT !.shownAlertIds = u.ids]
      [] u.op = "add"   -> [shownAlertIds |-> state.shownAlertIds \cup u.ids,
                            lastCheck |-> u.at]
      [] u.op = "clear" -> [state EXCEPT !.shownAlertIds =
                               IF state.lastCheck > u.at THEN @ ELSE {}]

RECURSIVE ApplyUpdaters(_, _)
ApplyUpdaters(state, us) ==
    IF us = <<>> THEN state
    ELSE ApplyUpdaters(ApplyUpdater(state, Head(us)), Tail(us))

\* The mount effect: the ids stored by an earlier session replace the set
HookLoad ==
    /\ hook.loadDue
    /\ hook' = [hook EXCEPT
                  !.loadDue = FALSE,
                  !.pending = IF IsDefined(hook.stored)
                              THEN Append(@, [op |-> "load", ids |-> Get(hook.stored),
                                              at |-> NowMs])
                              ELSE @]
    /\ UNCHANGED <<now, locations, weatherData, hs, geo, gw, boot, otherStores,
                   provider, box>>

\* The effect of WeatherAlerts, run after every render because
\* checkForNewAlerts is a new function in every render
HookCheck ==
    /\ hook.effectDue
    /\ ~hook.loadDue
    /\ hook' = [(IF Len(hook.alerts) > 0
                 THEN checkForNewAlerts(hook, hook.alerts, NowMs)
                 ELSE hook) EXCEPT !.effectDue = FALSE]
    /\ UNCHANGED <<now, locations, weatherData, hs, geo, gw, boot, otherStores,
                   provider, box>>

\* The alerts of id 1 a refetch can bring
AlertsOfOne ==
    { WeatherAlert(1, "severe", 0, DayMs),
      WeatherAlert(1, "Severe", 0, TickMs),
      WeatherAlert(1, "moderate", 0, DayMs),
      WeatherAlert(1, "moderate", 0 - 2 * HourMs, DayMs),
      WeatherAlert(1, "minor", 0, DayMs) }

\* The lists a refetch can bring: at most one alert per id, in the order of
\* the server's map
AlertFeeds ==
    LET one == {<<>>} \cup {<<a>> : a \in AlertsOfOne}
        two == {<<>>, <<WeatherAlert(2, "severe", 0, DayMs)>>}
    IN  {a \o b : a \in one, b \in two}

\* A render of WeatherAlerts: the queued updaters are applied, and the
\* closures see the state, the data the query holds now and the setting the
\* provider holds now
HookRender ==
    /\ ~hook.loadDue
    /\ ~hook.effectDue
    /\ \E feed \in AlertFeeds, enabled \in BOOLEAN :
         LET state == ApplyUpdaters([shownAlertIds |-> hook.shownAlertIds,
                                     lastCheck |-> hook.lastCheck], hook.pending)
         IN  hook' = [hook EXCEPT !.shownAlertIds = state.shownAlertIds,
                                  !.lastCheck = state.lastCheck,
                                  !.pending = <<>>,
                                  !.alerts = feed,
                                  !.enabled = enabled,
                                  !.effectDue = TRUE]
    /\ UNCHANGED <<now, locations, weatherData, hs, geo, gw, boot, otherStores,
                   provider, box>>

\* The interval of ALERT_CHECK_INTERVAL fires; a render follows before the
\* next firing
clearExpiredAlerts ==
    /\ hook.pending = <<>>
    /\ hook' = [hook EXCEPT !.pending = <<[op |-> "clear", ids |-> {},
                                           at |-> NowMs - DayMs]>>]
    /\ UNCHANGED <<now, locations, weatherData, hs, geo, gw, boot, otherStores,
                   provider, box>>

\* What localStorage holds under NOTIFICATION_STORAGE_KEY at the mount
StoredShown == {Undefined, Some({}), Some({2})}

----------------------------------------------------------------------------
(* SettingsProvider.  useState holds what the last render saw; setSettings  *)
(* and setIsLoading queue updaters that the next render applies; the load   *)
(* effect is declared before the save effect.                               *)

MaxPending == 2       \* queued calls of updateSettings and resetSettings

\* The values the settings modal offers
TemperatureUnits == {"fahrenheit", "celsius"}
Themes == {"light", "dark", "system"}
RefreshIntervals == {15, 30, 60}

UserSettings(unit, theme, notifications, interval, autoDetect) ==
    [ temperatureUnit |-> unit, theme |-> theme,
      notificationsEnabled |-> notifications,
      autoRefreshInterval |-> interval,
      autoDetectLocation |-> autoDetect ]

\* userSettingsSchema.parse(obj) succeeds (it then returns obj)
userSettingsSchema(obj) ==
    /\ obj.temperatureUnit \in TemperatureUnits
    /\ obj.theme \in Themes
    /\ obj.notificationsEnabled \in BOOLEAN
    /\ obj.autoRefreshInterval \in RefreshIntervals
    /\ obj.autoDetectLocation \in BOOLEAN

defaultSettings == UserSettings("fahrenheit", "system", TRUE, 30, TRUE)

\* { ...prev, ...newSettings }
Spread(prev, newSettings) ==
    LET Pick(k) == IF k \in DOMAIN newSettings THEN newSettings[k] ELSE prev[k]
    IN  UserSettings(Pick("temperatureUnit"), Pick("theme"),
                     Pick("notificationsEnabled"), Pick("autoRefreshInterval"),
                     Pick("autoDetectLocation"))

\* A text of localStorage: the empty text, a text JSON.parse rejects, or
\* the JSON of an object
StoredText(text, value) == [text |-> text, value |-> value]

\* JSON.stringify(settings)
stringify(settings) == StoredText("json", settings)

\* The provider after the first render
ProviderMounted(stored) ==
    [ settings |-> defaultSettings,   \* `settings` of the last render
      isLoading |-> TRUE,             \* `isLoading` of the last render
      pending |-> <<>>,               \* the queued updaters
      loadDue |-> TRUE,               \* the load effect has not run yet
      saveDue |-> TRUE,               \* the save effect has not run yet
      stored |-> stored ]             \* localStorage[SETTINGS_STORAGE_KEY]

\* An updater that keeps whatever the merge gives
UpdaterUnchecked(prev, newSettings) == Spread(prev, newSettings)

\* The updater of updateSettings
Updater(prev, newSettings) ==
    LET updated == Spread(prev, newSettings)
    IN  IF userSettingsSchema(updated) THEN updated ELSE prev

\* One queued updater applied to the state of the provider
ApplySetter(state, u) ==
    CASE u.op = "set"     -> [state EXCEPT !.settings = u.value, !.changed = TRUE]
      [] u.op = "update"  -> [state EXCEPT
                                !.settings = Updater(state.settings, u.value),
                                !.changed = @ \/ userSettingsSchema(
                                                   Spread(state.settings, u.value))]
      [] u.op = "loading" -> [state EXCEPT !.isLoading = FALSE,
                                           !.changed = @ \/ state.isLoading]

RECURSIVE ApplySetters(_, _)
ApplySetters(state, us) ==
    IF us = <<>> THEN state
    ELSE ApplySetters(ApplySetter(state, Head(us)), Tail(us))

\* A load effect that keeps whatever JSON.parse gives
LoadSettingsUnvalidated ==
    /\ provider.loadDue
    /\ LET savedSettings == provider.stored
           truthy == IsDefined(savedSettings) /\ Get(savedSettings).text # "empty"
           sets == IF ~truthy THEN <<>>
                   ELSE IF Get(savedSettings).text # "json"
                   THEN <<[op |-> "set", value |-> defaultSettings]>>
                   ELSE <<[op |-> "set", value |-> Get(savedSettings).value]>>
       IN  provider' = [provider EXCEPT
                          !.loadDue = FALSE,
                          !.pending = @ \o sets \o <<[op |-> "loading", value |-> FALSE]>>]
    /\ UNCHANGED <<now, locations, weatherData, hs, geo, gw, boot, otherStores,
                   hook, box>>

\* The load effect: getItem, JSON.parse, userSettingsSchema.parse, with the
\* catch and the finally
LoadSettings ==
    /\ provider.loadDue
    /\ LET savedSettings == provider.stored
           truthy == IsDefined(savedSettings) /\ Get(savedSettings).text # "empty"
           sets == IF ~truthy THEN <<>>
                   ELSE IF Get(savedSettings).text # "json"
                   THEN <<[op |-> "set", value |-> defaultSettings]>>
                   ELSE IF ~userSettingsSchema(Get(savedSettings).value)
                   THEN <<[op |-> "set", value |-> defaultSettings]>>
                   ELSE <<[op |-> "set", value |-> Get(savedSettings).value]>>
       IN  provider' = [provider EXCEPT
                          !.loadDue = FALSE,
                          !.pending = @ \o sets \o <<[op |-> "loading", value |-> FALSE]>>]
    /\ UNCHANGED <<now, locations, weatherData, hs, geo, gw, boot, otherStores,
                   hook, box>>

\* A save effect without the test of isLoading
SaveSettingsAlways ==
    /\ provider.saveDue
    /\ ~provider.loadDue
    /\ \E threw \in BOOLEAN :
         provider' = [provider EXCEPT
                        !.saveDue = FALSE,
                        !.stored = IF ~threw
                                   THEN Some(stringify(provider.settings))
                                   ELSE @]
    /\ UNCHANGED <<now, locations, weatherData, hs, geo, gw, boot, otherStores,
                   hook, box>>

\* The save effect; setItem can throw, which the catch swallows
SaveSettings ==
    /\ provider.saveDue
    /\ ~provider.loadDue
    /\ \E threw \in BOOLEAN :
         provider' = [provider EXCEPT
                        !.saveDue = FALSE,
                        !.stored = IF ~provider.isLoading /\ ~threw
                                   THEN Some(stringify(provider.settings))
                                   ELSE @]
    /\ UNCHANGED <<now, locations, weatherData, hs, geo, gw, boot, otherStores,
                   hook, box>>

\* A render of the provider: the queue is applied; the save effect is due
\* when settings or isLoading changed
ProviderRender ==
    /\ ~provider.loadDue
    /\ ~provider.saveDue
    /\ provider.pending # <<>>
    /\ LET state == ApplySetters([settings |-> provider.settings,
                                  isLoading |-> provider.isLoading,
                                  changed |-> FALSE], provider.pending)
       IN  provider' = [provider EXCEPT !.settings = state.settings,
                                        !.isLoading = state.isLoading,
                                        !.pending = <<>>,
                                        !.saveDue = state.changed]
    /\ UNCHANGED <<now, locations, weatherData, hs, geo, gw, boot, otherStores,
                   hook, box>>

\* The partial settings a caller passes
Partials ==
    { [theme |-> "dark"], [theme |-> "neon"],
      [temperatureUnit |-> "celsius"], [temperatureUnit |-> "kelvin"],
      [autoRefreshInterval |-> 60], [autoRefreshInterval |-> 45],
      [notificationsEnabled |-> FALSE],
      [temperatureUnit |-> "celsius", theme |-> "neon"] }

updateSettings ==
    /\ Len(provider.pending) < MaxPending
    /\ \E newSettings \in Partials :
         provider' = [provider EXCEPT
                        !.pending = Append(@, [op |-> "update", value |-> newSettings])]
    /\ UNCHANGED <<now, locations, weatherData, hs, geo, gw, boot, otherStores,
                   hook, box>>

resetSettings ==
    /\ Len(provider.pending) < MaxPending
    /\ provider' = [provider EXCEPT
                      !.pending = Append(@, [op |-> "set", value |-> defaultSettings])]
    /\ UNCHANGED <<now, locations, weatherData, hs, geo, gw, boot, otherStores,
                   hook, box>>

\* What localStorage holds under SETTINGS_STORAGE_KEY at the mount
StoredSettings ==
    { Undefined,
      Some(StoredText("empty", <<>>)),
      Some(StoredText("garbage", <<>>)),
      Some(stringify(defaultSettings)),
      Some(stringify(UserSettings("celsius", "dark", FALSE, 15, FALSE))),
      Some(stringify(UserSettings("kelvin", "dark", TRUE, 30, TRUE))),
      Some(stringify(UserSettings("celsius", "light", TRUE, 45, TRUE))) }

----------------------------------------------------------------------------
(* LocationSearch.  Its handlers run in discrete events, each followed by a *)
(* render, so every handler sees the state the previous one left.           *)

\* weatherApi.searchLocations(query): the answer of GET /api/locations/search
searchLocations(query) == getLocationsByQuery(locations, query)

\* The component after the first render
BoxMounted ==
    [ query |-> <<>>, showDropdown |-> FALSE, selectedIndex |-> -1,
      cache |-> {},            \* the queries whose data the query cache holds
      selected |-> Undefined ] \* the location last passed to onLocationSelect

\* `locations` of the render: the data of the current query, [] without data
BoxLocations(b) ==
    IF Len(b.query) >= 2 /\ b.query \in b.cache THEN searchLocations(b.query)
    ELSE <<>>

handleInputChange(b, value) ==
    [b EXCEPT !.query = value, !.selectedIndex = -1,
              !.showDropdown = Len(value) >= 2]

handleLocationClick(b, location) ==
    [b EXCEPT !.query = nameChars(location.name), !.showDropdown = FALSE,
              !.selected = Some(location.id)]

KeyNames == {"ArrowDown", "ArrowUp", "Enter", "Escape", "Tab"}

handleKeyDown(b, key) ==
    LET locs == BoxLocations(b)
    IN  IF ~b.showDropdown \/ Len(locs) = 0 THEN b
        ELSE CASE key = "ArrowDown" ->
                    [b EXCEPT !.selectedIndex = IF @ < Len(locs) - 1 THEN @ + 1 ELSE @]
               [] key = "ArrowUp" ->
                    [b EXCEPT !.selectedIndex = IF @ > 0 THEN @ - 1 ELSE -1]
               [] key = "Enter" ->
                    IF b.selectedIndex >= 0 /\ b.selectedIndex < Len(locs)
                    THEN handleLocationClick(b, locs[b.selectedIndex + 1])
                    ELSE b
               [] key = "Escape" ->
                    [b EXCEPT !.showDropdown = FALSE, !.selectedIndex = -1]
               [] OTHER -> b

\* The texts the user types
BoxInputs == {<<>>, <<"n">>, <<"c", "a">>, <<"0", "1">>, <<"x", "x">>}

\* onChange of the input
BoxInput ==
    /\ \E value \in BoxInputs : box' = handleInputChange(box, value)
    /\ UNCHANGED <<now, locations, weatherData, hs, geo, gw, boot, otherStores,
                   hook, provider>>

\* onKeyDown of the input
BoxKey ==
    /\ \E key \in KeyNames : box' = handleKeyDown(box, key)
    /\ UNCHANGED <<now, locations, weatherData, hs, geo, gw, boot, otherStores,
                   hook, provider>>

\* onFocus of the input
BoxFocus ==
    /\ box' = [box EXCEPT !.showDropdown = IF Len(box.query) >= 2 THEN TRUE ELSE @]
    /\ UNCHANGED <<now, locations, weatherData, hs, geo, gw, boot, otherStores,
                   hook, provider>>

\* The search of the current query answers (enabled: query.length >= 2)
BoxResults ==
    /\ Len(box.query) >= 2
    /\ box.query \notin box.cache
    /\ box' = [box EXCEPT !.cache = @ \cup {box.query}]
    /\ UNCHANGED <<now, locations, weatherData, hs, geo, gw, boot, otherStores,
                   hook, provider>>

\* The browser before the first effect runs, with an empty localStorage
InitClient ==
    /\ hook = HookMounted(Undefined, 0)
    /\ provider = ProviderMounted(Undefined)
    /\ box = BoxMounted

----------------------------------------------------------------------------
(* The clock *)

Tick ==
    /\ now < MaxTime
    /\ now' = now + 1
    /\ UNCHANGED <<locations, weatherData, hs, geo, gw, boot, otherStores, client>>

----------------------------------------------------------------------------
(* The weather requests: the store after construction, two requests in any  *)
(* interleaving of their awaits, the clock advancing at any moment          *)

\* The server starts at StartMinuteOfDay of the first day of StartMonth
InitBoot == boot = [month |-> StartMonth, minute |-> StartMinuteOfDay]

\* The constructor's sample alerts, one per default location; endTime is in
\* milliseconds from tick 0
sampleAlerts ==
    << [ id |-> 1, locationId |-> defaultLocations[1].id,
         title |-> "Winter Storm Warning", severity |-> "severe",
         endTime |-> 12 * 60 * 60 * 1000, isActive |-> 1 ],
       [ id |-> 2, locationId |-> defaultLocations[2].id,
         title |-> "Heat Advisory", severity |-> "moderate",
         endTime |-> 24 * 60 * 60 * 1000, isActive |-> 1 ],
       [ id |-> 3, locationId |-> defaultLocations[3].id,
         title |-> "Wind Advisory", severity |-> "minor",
         endTime |-> 6 * 60 * 60 * 1000, isActive |-> 1 ] >>

\* The maps the constructor fills or leaves empty
InitStores ==
    /\ weatherAlerts = sampleAlerts
    /\ forecastData = <<>>
    /\ hourlyForecast = <<>>

Init ==
    /\ now = 0
    /\ locations = defaultLocations
    /\ weatherData = <<>>
    /\ hs = [h \in Handlers |-> HIdle]
    /\ geo = GeoIdle
    /\ gw = GwIdle
    /\ InitBoot
    /\ InitStores
    /\ InitClient

Next ==
    \/ \E h \in Handlers : WeatherRequest(h)
    \/ \E h \in Handlers : WeatherGotLocation(h)
    \/ \E h \in Handlers : WeatherCheck(h)
    \/ \E h \in Handlers : WeatherPoints(h)
    \/ \E h \in Handlers : WeatherPointsJson(h)
    \/ \E h \in Handlers : WeatherFetched(h)
    \/ \E h \in Handlers : WeatherUpdate(h)
    \/ \E h \in Handlers : WeatherRespond(h)
    \/ \E h \in Handlers : WeatherDone(h)
    \/ Tick

Spec == Init /\ [][Next]_vars

----------------------------------------------------------------------------
(* The server: weather requests one at a time, interleaved with             *)
(* by-coordinates requests that add locations                               *)

ServerHandlers == {1}

MaxServerLocations == 4   \* locations the store may hold in this specification

NextServer ==
    \/ \E h \in ServerHandlers : WeatherRequest(h)
    \/ \E h \in ServerHandlers : WeatherGotLocation(h)
    \/ \E h \in ServerHandlers : WeatherCheck(h)
    \/ \E h \in ServerHandlers : WeatherPoints(h)
    \/ \E h \in ServerHandlers : WeatherPointsJson(h)
    \/ \E h \in ServerHandlers : WeatherFetched(h)
    \/ \E h \in ServerHandlers : WeatherUpdate(h)
    \/ \E h \in ServerHandlers : WeatherRespond(h)
    \/ \E h \in ServerHandlers : WeatherDone(h)
    \/ (Len(locations) < MaxServerLocations /\ GeoRequest)
    \/ GeoPoints
    \/ GeoJson
    \/ GeoRespond
    \/ GeoDone
    \/ Tick

SpecServer == Init /\ [][NextServer]_vars

----------------------------------------------------------------------------
(* The gateway alone: one call at a time, any coordinate, any upstream *)

GatewayCall ==
    /\ gw.pc = "idle"
    /\ \E lat \in LatInputs, lon \in LonInputs, us \in DrawSeqs :
         \/ gw' = fetchNWSWeatherData(lat, lon, NowMs, us)
         \/ gw' = fetchNWSForecastData(lat, lon, NowMs, us)
    /\ UNCHANGED <<now, locations, weatherData, hs, geo, boot, otherStores, client>>

GatewayPoints ==
    /\ gw.pc = "points"
    /\ \E outcome \in FetchOutcomes, us \in DrawSeqs :
         gw' = GwOnPoints(GwSaw(gw, outcome), outcome, NowMs, us)
    /\ UNCHANGED <<now, locations, weatherData, hs, geo, boot, otherStores, client>>

GatewayPointsJson ==
    /\ gw.pc = "pointsJson"
    /\ \E body \in JsonBodies, us \in DrawSeqs :
         gw' = GwOnPointsJson(GwSaw(gw, body), body, NowMs, us)
    /\ UNCHANGED <<now, locations, weatherData, hs, geo, boot, otherStores, client>>

GatewayForecast ==
    /\ gw.pc = "forecast"
    /\ \E outcome \in FetchOutcomes, us \in DrawSeqs :
         gw' = GwOnForecast(GwSaw(gw, outcome), outcome, NowMs, us)
    /\ UNCHANGED <<now, locations, weatherData, hs, geo, boot, otherStores, client>>

GatewayForecastJson ==
    /\ gw.pc = "forecastJson"
    /\ \E body \in ForecastBodies, us \in DrawSeqs :
         gw' = GwOnForecastJson(GwSaw(gw, body.kind), body, NowMs, us)
    /\ UNCHANGED <<now, locations, weatherData, hs, geo, boot, otherStores, client>>

GatewayReturned ==
    /\ gw.pc = "returned"
    /\ gw' = GwIdle
    /\ UNCHANGED <<now, locations, weatherData, hs, geo, boot, otherStores, client>>

InitGateway ==
    /\ now \in 0..MaxTime
    /\ locations = defaultLocations
    /\ weatherData = <<>>
    /\ hs = [h \in Handlers |-> HIdle]
    /\ geo = GeoIdle
    /\ gw = GwIdle
    /\ InitBoot
    /\ InitStores
    /\ InitClient

NextGateway ==
    \/ GatewayCall
    \/ GatewayPoints
    \/ GatewayPointsJson
    \/ GatewayForecast
    \/ GatewayForecastJson
    \/ GatewayReturned

SpecGateway == InitGateway /\ [][NextGateway]_vars

----------------------------------------------------------------------------
(* The generator alone: one call at any time of a day of any month *)

\* Ticks of one day
DayTicks == (24 * 60 * 60 * 1000) \div TickMs

\* generateMockWeatherData(lat, lon, "") is called and returns
Generate ==
    /\ gw.pc = "idle"
    /\ \E u \in Draws :
         gw' = GwReturn(GwCall("generate", 0, 0, "start", 0),
                        generateMockWeatherData(NowMs, u), FALSE)
    /\ UNCHANGED <<now, locations, weatherData, hs, geo, boot, otherStores, client>>

InitGenerator ==
    /\ now \in 0..(DayTicks - 1)
    /\ locations = defaultLocations
    /\ weatherData = <<>>
    /\ hs = [h \in Handlers |-> HIdle]
    /\ geo = GeoIdle
    /\ gw = GwIdle
    /\ boot \in [month : 0..11, minute : {StartMinuteOfDay}]
    /\ InitStores
    /\ InitClient

NextGenerator ==
    \/ Generate
    \/ GatewayReturned

SpecGenerator == InitGenerator /\ [][NextGenerator]_vars

----------------------------------------------------------------------------
(* The compass alone: getWindDirection on any angle *)

AngleStep == 1250     \* thousandths of a degree between two angles tried

\* The angles of [0, 360) on the grid of AngleStep, in thousandths of a degree
Angles == {d \in 0..(360 * 1000 - 1) : d % AngleStep = 0}

\* getWindDirection(degrees) is called and returns
Compass ==
    /\ gw.pc = "idle"
    /\ \E degrees \in Angles :
         gw' = GwSaw(GwReturn(GwCall("getWindDirection", 0, 0, "start", 0),
                              getWindDirection(degrees), FALSE),
                     degrees)
    /\ UNCHANGED <<now, locations, weatherData, hs, geo, boot, otherStores, client>>

NextCompass ==
    \/ Compass
    \/ GatewayReturned

SpecCompass == InitGateway /\ [][NextCompass]_vars

----------------------------------------------------------------------------
(* The three location routes: weather, forecast and hourly requests one at  *)
(* a time against the default locations, the clock advancing at any moment  *)

NextRoutes ==
    \/ \E h \in ServerHandlers : WeatherRequest(h)
    \/ \E h \in ServerHandlers : WeatherGotLocation(h)
    \/ \E h \in ServerHandlers : WeatherCheck(h)
    \/ \E h \in ServerHandlers : WeatherPoints(h)
    \/ \E h \in ServerHandlers : WeatherPointsJson(h)
    \/ \E h \in ServerHandlers : WeatherFetched(h)
    \/ \E h \in ServerHandlers : WeatherUpdate(h)
    \/ \E h \in ServerHandlers : WeatherRespond(h)
    \/ \E h \in ServerHandlers : WeatherDone(h)
    \/ \E h \in ServerHandlers : ForecastRequest(h)
    \/ \E h \in ServerHandlers : HourlyRequest(h)
    \/ \E h \in ServerHandlers : FeedGotLocation(h)
    \/ \E h \in ServerHandlers : FeedPoints(h)
    \/ \E h \in ServerHandlers : FeedPointsJson(h)
    \/ \E h \in ServerHandlers : FeedForecast(h)
    \/ \E h \in ServerHandlers : FeedForecastJson(h)
    \/ \E h \in ServerHandlers : ForecastRespond(h)
    \/ \E h \in ServerHandlers : HourlyRespond(h)
    \/ \E h \in ServerHandlers : FeedDone(h)
    \/ Tick

SpecRoutes == Init /\ [][NextRoutes]_vars

----------------------------------------------------------------------------
(* The Forecast Aggregator alone: a forecast or hourly handler resuming     *)
(* from `await fetchNWSForecastData(...)` with any feed                     *)

\* How the entries of a feed are laid out in time
FeedLayouts == {"same", "daily", "halfdaily", "sixhourly", "alternating", "backward"}

\* Hours from now to slot i (0-based) of a feed
SlotHours(layout, i) ==
    CASE layout = "same"        -> 0
      [] layout = "daily"       -> 24 * i
      [] layout = "halfdaily"   -> 12 * i
      [] layout = "sixhourly"   -> 6 * i
      [] layout = "alternating" -> 24 * (i % 3)
      [] layout = "backward"    -> 24 * (MaxFeed - i)

\* A feed of n entries in the shape fetchNWSForecastData returns
LaidFeed(ms, layout, n) ==
    [k \in 1..n |->
       [ dt       |-> ms \div 1000 + SlotHours(layout, k - 1) * 60 * 60,
         temp     |-> 60 + k,
         temp_min |-> 50 + k,
         temp_max |-> 70 + k,
         humidity |-> 40000 + 625 * k,
         main     |-> conditions[(k % Len(conditions)) + 1],
         description |-> conditions[(k % Len(conditions)) + 1],
         icon     |-> icons[(k % Len(icons)) + 1],
         speed    |-> 1500 * k,
         pop      |-> (125 * k) % 1000 ]]

InitAggregator ==
    /\ now \in 0..MaxTime
    /\ locations = defaultLocations
    /\ weatherData = <<>>
    /\ \E route \in {"forecast", "hourly"}, layout \in FeedLayouts, n \in 0..MaxFeed :
         hs = [h \in Handlers |->
                 IF h \in ServerHandlers
                 THEN [FIdle EXCEPT
                         !.route = route,
                         !.pc = "feedFetch",
                         !.locationId = defaultLocations[1].id,
                         !.location = Some(defaultLocations[1]),
                         !.gw = GwReturn(GwCall("forecast", defaultLocations[1].lat,
                                                defaultLocations[1].lon, "start", 0),
                                         LaidFeed(NowMs, layout, n), FALSE)]
                 ELSE HIdle]
    /\ geo = GeoIdle
    /\ gw = GwIdle
    /\ InitBoot
    /\ InitStores
    /\ InitClient

NextAggregator ==
    \/ \E h \in ServerHandlers : ForecastRespond(h)
    \/ \E h \in ServerHandlers : HourlyRespond(h)

SpecAggregator == InitAggregator /\ [][NextAggregator]_vars

----------------------------------------------------------------------------
(* The routing rule of the gateway *)

MockReadings(ms) == {generateMockWeatherData(ms, u) : u \in Draws}
MockFeeds(ms) == {MockForecast(ms, us) : us \in DrawSeqs}

OutsideBox(lat, lon) ==
    lat < 200000 \/ lat > 500000 \/ lon < -1800000 \/ lon > -600000

\* C1: for every coordinate outside latitude [20,50] x longitude [-180,-60]
\* fetchNWSWeatherData and fetchNWSForecastData issue no network call and
\* return a value generateMockWeatherData produced; for every coordinate of
\* the box, its edges included, the points lookup is issued.
C1_OutOfBoxIsSynthetic ==
    gw.pc # "idle" =>
       /\ OutsideBox(gw.lat, gw.lon) =>
            /\ gw.calls = 0
            /\ gw.pc = "returned"
            /\ ~gw.threw /\ ~gw.live
            /\ IsDefined(gw.ret)
            /\ gw.fn = "weather" => Get(gw.ret) \in MockReadings(NowMs)
            /\ gw.fn = "forecast" => Get(gw.ret) \in MockFeeds(NowMs)
       /\ ~OutsideBox(gw.lat, gw.lon) => gw.calls >= 1

\* Both functions have returned for a coordinate just north of the box
\* without a network call
C1_Witness ==
    /\ gw.pc = "returned" /\ gw.fn = "forecast"
    /\ gw.lat = 500001 /\ gw.lon = -100 * Deg
    /\ gw.calls = 0

\* The answers of the upstream points lookup after which fetchNWSWeatherData
\* has nothing left to await
PointsOutcomes ==
    { <<"notok">>, <<"reject">>, <<"ok", "good">>, <<"ok", "malformed">>,
      <<"ok", "unparseable">> }

\* C2: fetchNWSWeatherData never throws and, whatever the points lookup
\* answers (success, other status, network error, unparseable body), returns
\* a reading with all thirteen fields.
C2_WeatherAlwaysReturns ==
    gw.fn = "weather" =>
       /\ ~gw.threw
       /\ gw.pc \in {"points", "pointsJson", "returned"}
       /\ gw.seen \in PointsOutcomes => gw.pc = "returned"
       /\ gw.pc = "returned" =>
            /\ IsDefined(gw.ret)
            /\ DOMAIN Get(gw.ret) = ReadingFields

\* The body of a successful points lookup could not be parsed, and the call
\* has returned a reading
C2_Witness ==
    /\ gw.fn = "weather" /\ gw.pc = "returned"
    /\ gw.seen = <<"ok", "unparseable">>
    /\ IsDefined(gw.ret)

----------------------------------------------------------------------------
(* The freshness policy of GET /api/weather/:locationId *)

\* The age, at this instant, of the reading a handler holds
Age(h) == NowMs - Get(hs[h].weatherData).lastUpdated

\* Handler h performs its freshness check in this step, holding a reading
Checks(h) ==
    /\ hs[h].pc = "getWeatherData"
    /\ hs'[h].pc # "getWeatherData"
    /\ IsDefined(hs[h].weatherData)

\* C3: a handler that found a stored reading younger than 30 minutes issues
\* no upstream fetch, leaves the store as it is and answers 200 with exactly
\* the reading it found.
C3_FreshServedUnchanged ==
    [][\A h \in Handlers :
         (Checks(h) /\ Age(h) < 30 * 60 * 1000) =>
            /\ hs'[h].pc = "done"
            /\ hs'[h].gw = GwIdle
            /\ ~IsDefined(hs'[h].newWeatherData)
            /\ weatherData' = weatherData
            /\ hs'[h].res = Some(Response(200, hs[h].location, hs[h].weatherData))]_vars

\* A request was answered from the store with a reading 20 minutes old
C3_Witness ==
    \E h \in Handlers :
       /\ hs[h].pc = "done"
       /\ IsDefined(hs[h].res) /\ Get(hs[h].res).status = 200
       /\ ~IsDefined(hs[h].newWeatherData)
       /\ Get(hs[h].res).weather = hs[h].weatherData
       /\ Age(h) = 20 * 60 * 1000

\* C4 as stated: a stored reading whose age is 30 minutes or more, exactly
\* 30 minutes included, is refetched.
C4_StaleAtThirty ==
    [][\A h \in Handlers :
         (Checks(h) /\ Age(h) >= 30 * 60 * 1000) => hs'[h].pc = "fetch"]_vars

\* C4 (amended): a stored reading older than 30 minutes is refetched and the
\* handler goes on to overwrite it; a reading of exactly 30 minutes is
\* served from the store without a fetch.
C4_StaleAfterThirty ==
    [][\A h \in Handlers :
         /\ (Checks(h) /\ Age(h) > 30 * 60 * 1000) =>
               /\ hs'[h].pc = "fetch"
               /\ hs'[h].gw.fn = "weather"
               /\ hs'[h].gw.calls = 1
         /\ (Checks(h) /\ Age(h) = 30 * 60 * 1000) =>
               /\ hs'[h].pc = "done"
               /\ hs'[h].gw = GwIdle
               /\ weatherData' = weatherData
               /\ hs'[h].res = Some(Response(200, hs[h].location, hs[h].weatherData))
         /\ (hs[h].pc = "fetch" /\ hs'[h].pc # "fetch" /\ IsDefined(hs[h].weatherData)) =>
               hs'[h].pc = "updateWeatherData"
         /\ (hs[h].pc = "updateWeatherData" /\ hs'[h].pc # "updateWeatherData") =>
               /\ IsDefined(hs'[h].result)
               /\ getWeatherData(weatherData', hs[h].locationId) = hs'[h].result]_vars

\* A handler is fetching for a reading it found more than 30 minutes old
C4_Witness ==
    \E h \in Handlers :
       /\ hs[h].pc = "updateWeatherData"
       /\ IsDefined(hs[h].weatherData)
       /\ Age(h) > 30 * 60 * 1000

\* C5: the write of a refresh keeps the record id and the locationId of the
\* stale reading, adds no record, stamps lastUpdated with the clock at the
\* write, and the response carries the record written.
C5_RefreshInPlace ==
    [][\A h \in Handlers :
         /\ (hs[h].pc = "updateWeatherData" /\ hs'[h].pc # "updateWeatherData") =>
               /\ hs'[h].pc = "respond"
               /\ IsDefined(hs'[h].result)
               /\ Get(hs'[h].result).id = Get(hs[h].weatherData).id
               /\ Get(hs'[h].result).locationId = hs[h].locationId
               /\ Get(hs'[h].result).locationId = Get(hs[h].weatherData).locationId
               /\ Get(hs'[h].result).lastUpdated = NowMs
               /\ Keys(weatherData') = Keys(weatherData)
               /\ Len(weatherData') = Len(weatherData)
               /\ MapGet(weatherData', Get(hs[h].weatherData).id) = hs'[h].result
               /\ \A f \in ReadingFields :
                     Get(hs'[h].result)[f] = Get(hs[h].newWeatherData)[f]
         /\ (hs[h].pc = "respond" /\ hs'[h].pc # "respond" /\ IsDefined(hs[h].existing)) =>
               hs'[h].res = Some(Response(200, hs[h].location, hs[h].result))]_vars

\* A refresh has written: the stored record carries the id of the reading
\* that was found stale and the time of the write
C5_Witness ==
    \E h \in Handlers :
       /\ hs[h].pc = "done"
       /\ IsDefined(hs[h].existing)
       /\ IsDefined(hs[h].res) /\ Get(hs[h].res).status = 200
       /\ Get(Get(hs[h].res).weather).id = Get(hs[h].existing).id
       /\ Get(Get(hs[h].res).weather).lastUpdated > Get(hs[h].existing).lastUpdated + 30 * 60 * 1000

\* C6: a location has at most one stored reading.
C6_AtMostOneReading ==
    \A l \in Keys(locations) : Cardinality(Readings(weatherData, l)) <= 1

\* Handler h writes the reading it created, or answers, having found none
Creates(h) ==
    /\ hs[h].pc = "fetch" /\ hs'[h].pc # "fetch"
    /\ hs[h].gw.pc = "returned"
    /\ ~IsDefined(hs[h].weatherData)

\* C7: a request for a known location without a stored reading fetches one
\* and stores it: the store then holds a reading for the location, and the
\* response contains it.
C7_MissingFetchedAndStored ==
    [][\A h \in Handlers :
         /\ (hs[h].pc = "getWeatherData" /\ hs'[h].pc # "getWeatherData"
               /\ ~IsDefined(hs[h].weatherData)) =>
               /\ hs'[h].pc = "fetch"
               /\ hs'[h].gw.fn = "weather"
         /\ Creates(h) =>
               /\ hs'[h].pc = "respond"
               /\ IsDefined(hs'[h].result)
               /\ Get(hs'[h].result).locationId = hs[h].locationId
               /\ weatherData' = Append(weatherData, Get(hs'[h].result))
               /\ IsDefined(getWeatherData(weatherData', hs[h].locationId))
         /\ (hs[h].pc = "respond" /\ hs'[h].pc # "respond"
               /\ ~IsDefined(hs[h].weatherData)) =>
               /\ hs'[h].res = Some(Response(200, hs[h].location, hs[h].result))
               /\ \E i \in 1..Len(weatherData) :
                     /\ weatherData[i].id = Get(hs[h].result).id
                     /\ weatherData[i].locationId = hs[h].locationId]_vars

\* A request that found no reading has answered with the one it stored
C7_Witness ==
    \E h \in Handlers :
       /\ hs[h].pc = "done"
       /\ IsDefined(hs[h].newWeatherData) /\ ~IsDefined(hs[h].existing)
       /\ IsDefined(hs[h].res) /\ Get(hs[h].res).status = 200
       /\ \E i \in 1..Len(weatherData) :
             weatherData[i].id = Get(Get(hs[h].res).weather).id

\* Handler o is refreshing the location of handler h at the same time
Concurrent(h, o) ==
    /\ o # h
    /\ hs[o].locationId = hs[h].locationId
    /\ IsDefined(hs[o].weatherData)
    /\ hs[o].pc \in {"fetch", "updateWeatherData", "respond"}

\* C8: when two requests refresh the same stale location concurrently, both
\* writes go to the same record and the location is left with exactly one
\* reading, holding the values of the write that executed last.
C8_LastWriteWins ==
    [][\A h \in Handlers :
         (/\ hs[h].pc = "updateWeatherData" /\ hs'[h].pc # "updateWeatherData"
          /\ \E o \in Handlers : Concurrent(h, o)) =>
            /\ \A o \in Handlers :
                  (Concurrent(h, o) /\ IsDefined(hs[o].result)) =>
                     Get(hs[o].result).id = Get(hs'[h].result).id
            /\ Cardinality(Readings(weatherData', hs[h].locationId)) = 1
            /\ getWeatherData(weatherData', hs[h].locationId) = hs'[h].result
            /\ \A f \in ReadingFields :
                  Get(hs'[h].result)[f] = Get(hs[h].newWeatherData)[f]]_vars

\* C9: there is no single-flight guarantee.  Every handler that decided to
\* refresh has issued an upstream call of its own, whatever the other
\* handlers are doing.
C9_EachHandlerFetches ==
    \A h \in Handlers :
       hs[h].pc = "fetch" =>
          /\ hs[h].gw.fn = "weather"
          /\ hs[h].gw.lat = Get(hs[h].location).lat
          /\ hs[h].gw.lon = Get(hs[h].location).lon
          /\ hs[h].gw.calls = 1

\* Two requests for one location saw the same stale reading, and the points
\* lookups of both are in flight before either has written
C9_Witness ==
    /\ hs[1].pc = "fetch" /\ hs[2].pc = "fetch"
    /\ hs[1].locationId = hs[2].locationId
    /\ IsDefined(hs[1].weatherData)
    /\ hs[1].weatherData = hs[2].weatherData
    /\ hs[1].weatherData = getWeatherData(weatherData, hs[1].locationId)
    /\ hs[1].gw.pc = "points" /\ hs[2].gw.pc = "points"

\* C10: no operation removes a record: the ids of the stored locations and
\* of the stored readings only grow.
C10_NothingDeleted ==
    [][/\ Keys(locations) \subseteq Keys(locations')
       /\ Keys(weatherData) \subseteq Keys(weatherData')
       /\ Len(locations') >= Len(locations)
       /\ Len(weatherData') >= Len(weatherData)]_vars

\* The store has grown by a location and holds a reading that was refreshed
C10_Witness ==
    /\ Len(locations) > Len(defaultLocations)
    /\ \E i \in 1..Len(weatherData) : weatherData[i].lastUpdated > 30 * 60 * 1000

----------------------------------------------------------------------------
(* C11, C12: the Forecast Aggregator *)

\* The calendar dates of a feed
FeedDates(list) == {toDateString(list[i].dt * 1000) : i \in 1..Len(list)}

\* The position of the first entry of a feed that falls on date d
FirstOf(list, d) ==
    CHOOSE i \in 1..Len(list) :
        /\ toDateString(list[i].dt * 1000) = d
        /\ \A k \in 1..(i - 1) : toDateString(list[k].dt * 1000) # d

\* Handler h has answered a request of the route from a feed
Answered(h, route) ==
    /\ hs[h].pc = "feedDone"
    /\ hs[h].route = route
    /\ IsDefined(hs[h].forecastDataList)

C12_HourlyFirstEight ==
    \A h \in ServerHandlers :
        Answered(h, "hourly") =>
            LET list == Get(hs[h].forecastDataList)
                hourly == Get(Get(hs[h].res).body)
            IN  /\ Get(hs[h].res).status = 200
                /\ Len(hourly) = Min(8, Len(list))
                /\ \A i \in 1..Len(hourly) :
                       /\ hourly[i] = HourlyEntry(hs[h].locationId, list[i])
                       /\ hourly[i].forecastTime = list[i].dt * 1000
                       /\ hourly[i].temperature = list[i].temp

\* A feed of more than eight entries cut to eight
C12_Witness ==
    \E h \in ServerHandlers :
        /\ Answered(h, "hourly")
        /\ Len(Get(hs[h].forecastDataList)) > 8
        /\ Len(Get(Get(hs[h].res).body)) = 8

----------------------------------------------------------------------------
(* C13: the forecast gateway *)

\* The upstream answers of a call that ran the whole live path
LiveAnswers == <<"ok", "good", "ok", "feed">>

----------------------------------------------------------------------------
(* C14, C15: the statuses of the weather, forecast and hourly routes *)

\* The data of a response: the reading of a weather response, the summary
\* of a forecast or hourly response
ResponseData(r) == IF "body" \in DOMAIN r THEN r.body ELSE r.weather

\* C14: no weather, forecast or hourly request is answered 503, and a
\* request for a stored location is answered 200 with data whatever the
\* upstream did.
C14_NoServiceUnavailable ==
    \A h \in ServerHandlers :
        IsDefined(hs[h].res) =>
            /\ Get(hs[h].res).status # 503
            /\ IsDefined(hs[h].location) =>
                   /\ Get(hs[h].res).status = 200
                   /\ IsDefined(ResponseData(Get(hs[h].res)))

\* A forecast or hourly request answered from an upstream feed of no entries
C14_Witness ==
    \E h \in ServerHandlers :
        /\ hs[h].pc = "feedDone"
        /\ hs[h].forecastDataList = Some(<<>>)
        /\ Get(hs[h].res).status = 200

\* Handler h is about to act on the lookup of an id no location has
UnknownLookup(h) ==
    /\ hs[h].pc \in {"getLocation", "feedLocation"}
    /\ hs[h].locationId \notin Keys(locations)

\* C15: a weather, forecast or hourly request for an id that no stored
\* location has is answered 404 at once, without a gateway call and
\* without a change to the locations or the readings.
C15_UnknownIdNotFound ==
    [][\A h \in ServerHandlers :
          (UnknownLookup(h) /\ hs'[h] # hs[h]) =>
              /\ IsDefined(hs'[h].res)
              /\ Get(hs'[h].res).status = 404
              /\ hs'[h].pc \in {"done", "feedDone"}
              /\ hs'[h].gw = GwIdle
              /\ locations' = locations
              /\ weatherData' = weatherData]_vars

\* A forecast or hourly request for an unknown id has been answered
C15_Witness ==
    \E h \in ServerHandlers :
        /\ hs[h].pc = "feedDone"
        /\ hs[h].locationId \notin Keys(locations)
        /\ Get(hs[h].res).status = 404
        /\ hs[h].gw.calls = 0

----------------------------------------------------------------------------
(* The location routes: searches interleaved with by-coordinates requests   *)
(* that add locations                                                       *)

NextLocations ==
    \/ \E h \in ServerHandlers : SearchRequest(h)
    \/ \E h \in ServerHandlers : SearchRespond(h)
    \/ \E h \in ServerHandlers : SearchDone(h)
    \/ GeoRequest
    \/ GeoPoints
    \/ GeoJson
    \/ GeoRespond
    \/ GeoDone

SpecLocations == Init /\ [][NextLocations]_vars

----------------------------------------------------------------------------
(* C16: the search route *)

\* Handler h is serving or has served a search
Searching(h) == hs[h].pc \in {"searchQuery", "searchDone"}

\* C16: a search without q or with the empty q is answered 400 and the
\* store is not queried; a search with any other q is answered with an
\* array of stored locations.
C16_SearchNeedsQuery ==
    \A h \in ServerHandlers :
        Searching(h) =>
            IF hs[h].query = Undefined \/ hs[h].query = Some(<<>>)
            THEN /\ hs[h].pc = "searchDone"
                 /\ Get(hs[h].res).status = 400
                 /\ ~IsDefined(hs[h].found)
            ELSE /\ IsDefined(hs[h].found)
                 /\ hs[h].pc = "searchDone" =>
                        /\ Get(hs[h].res).status = 200
                        /\ IsDefined(Get(hs[h].res).body)
                        /\ \A i \in 1..Len(Get(Get(hs[h].res).body)) :
                               \E k \in 1..Len(locations) :
                                   Get(Get(hs[h].res).body)[i] = locations[k]

\* A search that found a location added by a by-coordinates request
C16_Witness ==
    \E h \in ServerHandlers :
        /\ hs[h].pc = "searchDone"
        /\ IsDefined(hs[h].query)
        /\ Get(hs[h].res).status = 200
        /\ \E i \in 1..Len(Get(Get(hs[h].res).body)) :
               Get(Get(hs[h].res).body)[i].zipCode = "null"

----------------------------------------------------------------------------
(* C17, C18: the by-coordinates route *)

\* The by-coordinates handler has made the step that took the request in
GeoTaken == geo.pc = "idle" /\ geo'.pc # "idle"

\* C17: a by-coordinates request whose lat or lon does not parse is
\* answered 400 without a lookup and without a new location; a request
\* whose lat and lon parse, in or out of the geographic ranges, is never
\* refused and is answered with one Location of these coordinates.
C17_CoordinatesParseOrRefuse ==
    [][/\ GeoTaken =>
             IF geo'.lat = NaN \/ geo'.lon = NaN
             THEN /\ geo'.pc = "done"
                  /\ Get(geo'.res).status = 400
                  /\ geo'.calls = 0
                  /\ locations' = locations
             ELSE geo'.pc \in {"points", "respond"}
       /\ (geo.pc \notin {"idle", "done"} /\ geo' # geo) =>
             /\ geo'.pc \in {"json", "respond", "done"}
             /\ IsDefined(geo'.res) <=> geo'.pc \in {"respond", "done"}
             /\ IsDefined(geo'.res) =>
                    /\ Get(geo'.res).status = 200
                    /\ \E k \in 1..Len(locations') :
                           /\ Get(geo'.res).location = Some(locations'[k])
                           /\ locations'[k].lat = Get(geo'.lat)
                           /\ locations'[k].lon = Get(geo'.lon)]_vars

\* A request for a latitude of 95 and a longitude of 200 degrees answered
C17_Witness ==
    /\ geo.pc = "done"
    /\ IsDefined(geo.res)
    /\ Get(geo.res).status = 200
    /\ Get(Get(geo.res).location).lat > 90 * Deg
    /\ Get(Get(geo.res).location).lon > 180 * Deg

\* The stored locations with the coordinates of the request in progress
AtCoordinates(g) ==
    {k \in 1..Len(locations) :
        locations[k].lat = Get(g.lat) /\ locations[k].lon = Get(g.lon)}

\* C18: a by-coordinates request for coordinates a stored location already
\* has adds no location and is answered with that location.
C18_SeenCoordinatesReused ==
    [][(geo'.pc = "respond" /\ geo.pc # "respond" /\ AtCoordinates(geo') # {}) =>
           /\ Len(locations') = Len(locations)
           /\ \E k \in AtCoordinates(geo') :
                  Get(geo'.res).location = Some(locations[k])]_vars

----------------------------------------------------------------------------
(* C19: the live path of the weather gateway *)

\* C19: when the coordinate is in the box and the points lookup succeeds,
\* fetchNWSWeatherData still returns a reading of the generator, and the
\* reading is the same whatever the body of the points response holds.
C19_LiveReadingIsSynthetic ==
    /\ (gw.fn = "weather" /\ gw.pc = "returned" /\ gw.seen # <<>> /\ gw.seen[1] = "ok") =>
           /\ ~gw.threw
           /\ ~gw.live
           /\ \E u \in Draws : Get(gw.ret) = generateMockWeatherData(NowMs, u)
    /\ (gw.fn = "weather" /\ gw.pc = "pointsJson") =>
           \A us \in DrawSeqs : \A b1, b2 \in JsonBodies :
               GwOnPointsJson(gw, b1, NowMs, us).ret
                   = GwOnPointsJson(gw, b2, NowMs, us).ret

\* A weather call whose points lookup succeeded with a good body has returned
C19_Witness ==
    /\ gw.fn = "weather"
    /\ gw.pc = "returned"
    /\ gw.seen = <<"ok", "good">>
    /\ IsDefined(gw.ret)

----------------------------------------------------------------------------
(* C20: the UV index of the generator *)

\* The generator has returned a reading
Generated == gw.fn = "generate" /\ gw.pc = "returned"

\* C20: the uvIndex of a generated reading is max(0, round((hour - 6) / 2))
\* for the hour of the call: 0 before 6 o'clock, never negative, and over
\* the hours 6..23 it never decreases.
C20_UvIndexByHour ==
    Generated =>
        LET hour == getHours(NowMs)
            uv == Get(gw.ret).uvIndex
        IN  /\ hour \in 0..23
            /\ uv = (IF hour < 6 THEN 0 ELSE (hour - 5) \div 2)
            /\ uv >= 0
            /\ hour < 6 => uv = 0
            /\ \A earlier \in 6..23 : earlier <= hour => uvIndex(earlier) <= uv

\* A reading generated at 7 o'clock, where (hour - 6) / 2 is a half
C20_Witness ==
    /\ Generated
    /\ getHours(NowMs) = 7
    /\ Get(gw.ret).uvIndex = 1

----------------------------------------------------------------------------
(* C21, C22: the temperature of the generator *)

\* The diurnal offset is at its largest / smallest at this hour
IsPeak(hour) == \A other \in 0..23 : dailyCycle(other) <= dailyCycle(hour)
IsTrough(hour) == \A other \in 0..23 : dailyCycle(other) >= dailyCycle(hour)

\* C21: the diurnal offset of a generated reading is largest at an hour of
\* the afternoon (12..17) and smallest at an hour of the night or the early
\* morning (21..23 or 0..8).
C21_PeakInAfternoon ==
    Generated =>
        LET hour == getHours(NowMs)
        IN  /\ IsPeak(hour) => hour \in 12..17
            /\ IsTrough(hour) => hour \in (21..23) \cup (0..8)

\* The base temperature the months of the year have, January first
SeasonTable == <<45, 45, 60, 60, 60, 85, 85, 85, 65, 65, 65, 45>>

\* C22: the base temperature of a generated reading is 45 in months 11, 0
\* and 1, 60 in months 2..4, 85 in months 5..7 and 65 in months 8..10, and
\* the temperature of the reading is this base plus the diurnal offset and
\* a variation of at most 10 degrees either way.
C22_BaseTempBySeason ==
    Generated =>
        LET month == getMonth(NowMs)
            base == baseTemp(month)
            centre == base * 1000 + dailyCycle(getHours(NowMs))
            temperature == Get(gw.ret).temperature * 1000
        IN  /\ month \in 0..11
            /\ base = SeasonTable[month + 1]
            /\ {baseTemp(m) : m \in 0..11} = {45, 60, 85, 65}
            /\ temperature >= centre - 10500
            /\ temperature <= centre + 10500

\* A reading generated in July
C22_Witness ==
    /\ Generated
    /\ getMonth(NowMs) = 6
    /\ getHours(NowMs) = 12
    /\ Get(gw.ret).temperature = 75

----------------------------------------------------------------------------
(* C23: the compass *)

\* The distance between two values
Distance(a, b) == IF a >= b THEN a - b ELSE b - a

\* C23: for an angle of [0, 360) getWindDirection returns one of the 16
\* compass names: the name of the point the angle is less than 11.25
\* degrees away from, and N from 348.75 degrees on.
C23_SixteenPoints ==
    (gw.fn = "getWindDirection" /\ gw.pc = "returned") =>
        LET degrees == gw.seen[1]
            name == Get(gw.ret)
        IN  /\ \E k \in 1..16 : name = directions[k]
            /\ \A k \in 0..15 :
                   Distance(degrees, k * 22500) < 11250 => name = directions[k + 1]
            /\ degrees >= 348750 => name = "N"

\* An angle just below 360 degrees is named N
C23_Witness ==
    /\ gw.fn = "getWindDirection"
    /\ gw.pc = "returned"
    /\ gw.seen[1] >= 348750
    /\ Get(gw.ret) = "N"

----------------------------------------------------------------------------
(* C24: the summaries of a live feed *)

\* Handler h resumes from a gateway call that returned the upstream periods
\* and answers
LiveAnswer(h) ==
    /\ hs[h].pc = "feedFetch"
    /\ hs[h].gw.pc = "returned"
    /\ hs[h].gw.live
    /\ hs'[h].pc = "feedDone"

\* What a live feed looks like: at most ten entries, all stamped with one
\* clock value that is not in the future
OneStamp(feed) ==
    /\ Len(feed) <= 10
    /\ \A i, j \in 1..Len(feed) : feed[i].dt = feed[j].dt
    /\ \A i \in 1..Len(feed) : feed[i].dt * 1000 <= NowMs

\* The hourly summary of a live feed: min(8, n) entries with one timestamp
OneStampHourly(feed, hourly) ==
    /\ Len(hourly) = Min(8, Len(feed))
    /\ \A i, j \in 1..Len(hourly) : hourly[i].forecastTime = hourly[j].forecastTime

\* C24 as stated: a live feed has at most 10 entries with one timestamp, its
\* daily summary has a single entry and its hourly summary has up to 8
\* entries with the same timestamp.
C24_LiveFeedSingleEntry ==
    [][\A h \in ServerHandlers :
          LiveAnswer(h) =>
              LET feed == Get(hs[h].gw.ret)
                  body == Get(Get(hs'[h].res).body)
              IN  /\ OneStamp(feed)
                  /\ hs[h].route = "forecast" => Len(body) = 1
                  /\ hs[h].route = "hourly" => OneStampHourly(feed, body)]_vars

\* C24 amended: the daily summary of a live feed has a single entry when the
\* upstream sent at least one period, and no entry when it sent none.
C24_LiveFeedOneDate ==
    [][\A h \in ServerHandlers :
          LiveAnswer(h) =>
              LET feed == Get(hs[h].gw.ret)
                  body == Get(Get(hs'[h].res).body)
              IN  /\ OneStamp(feed)
                  /\ hs[h].route = "forecast" =>
                         Len(body) = (IF feed = <<>> THEN 0 ELSE 1)
                  /\ hs[h].route = "hourly" => OneStampHourly(feed, body)]_vars

\* A forecast request answered from ten upstream periods with one entry
C24_Witness ==
    \E h \in ServerHandlers :
        /\ Answered(h, "forecast")
        /\ Len(Get(hs[h].forecastDataList)) = 10
        /\ Get(hs[h].forecastDataList)[1].main = "Sunny"
        /\ Len(Get(Get(hs[h].res).body)) = 1

----------------------------------------------------------------------------
(* C25: the age of the readings served *)

\* Handler h answers 200 in this step
Serves(h) ==
    /\ hs[h].pc \in {"getWeatherData", "respond"}
    /\ hs'[h].pc = "done"
    /\ Get(hs'[h].res).status = 200

\* The clock value the freshness check of the request being answered read
CheckTime(h) == IF hs[h].pc = "getWeatherData" THEN NowMs ELSE hs[h].checkedAt

\* C25: the reading of every 200 answer of GET /api/weather/:locationId was
\* at most 30 minutes old when the handler made its freshness check, in
\* every interleaving of two requests and for every upstream outcome.
C25_ServedAtMostThirtyOld ==
    [][\A h \in Handlers :
          Serves(h) =>
              CheckTime(h) - Get(Get(hs'[h].res).weather).lastUpdated <= StaleMs]_vars

\* A stored reading served at an age of 30 minutes or more at answer time
C25_Witness ==
    \E h \in Handlers :
        /\ hs[h].pc = "done"
        /\ IsDefined(hs[h].res)
        /\ Get(hs[h].res).status = 200
        /\ ~IsDefined(hs[h].newWeatherData)
        /\ NowMs - Get(Get(hs[h].res).weather).lastUpdated >= StaleMs

----------------------------------------------------------------------------
(* C26: the frame of the forecast and hourly routes *)

\* Handler h makes a step of a forecast or hourly request
FeedStep(h) ==
    /\ hs'[h] # hs[h]
    /\ \/ hs[h].pc \in {"feedLocation", "feedFetch", "feedDone"}
       \/ hs'[h].pc = "feedLocation"

\* C26: no step of a forecast or hourly request changes the locations, the
\* readings, the alerts, the stored forecasts or the stored hourly
\* forecasts, and every 200 answer is built from the gateway call of its
\* own request.
C26_FeedRoutesStoreNothing ==
    [][\A h \in ServerHandlers :
          FeedStep(h) =>
              /\ UNCHANGED <<locations, weatherData, weatherAlerts, forecastData,
                             hourlyForecast>>
              /\ (hs'[h].pc = "feedDone" /\ Get(hs'[h].res).status = 200) =>
                     /\ hs[h].gw.pc = "returned"
                     /\ hs[h].gw.fn = "forecast"
              /\ (hs[h].pc = "feedLocation" /\ IsDefined(hs[h].location)) =>
                     hs'[h].gw.fn = "forecast"]_vars

\* A forecast answered with entries while the forecast store is empty
C26_Witness ==
    \E h \in ServerHandlers :
        /\ Answered(h, "forecast")
        /\ Get(Get(hs[h].res).body) # <<>>
        /\ forecastData = <<>>
        /\ hourlyForecast = <<>>
        /\ weatherAlerts = sampleAlerts

----------------------------------------------------------------------------
(* The browser components, each on its own                                  *)

InitAlerts ==
    /\ now = 0
    /\ locations = defaultLocations
    /\ weatherData = <<>>
    /\ hs = [h \in Handlers |-> HIdle]
    /\ geo = GeoIdle
    /\ gw = GwIdle
    /\ InitBoot
    /\ InitStores
    /\ hook \in {HookMounted(stored, 0) : stored \in StoredShown}
    /\ provider = ProviderMounted(Undefined)
    /\ box = BoxMounted

NextAlerts ==
    \/ HookLoad
    \/ HookCheck
    \/ HookRender
    \/ clearExpiredAlerts
    \/ Tick

SpecAlerts == InitAlerts /\ [][NextAlerts]_vars

InitSettings ==
    /\ now = 0
    /\ locations = defaultLocations
    /\ weatherData = <<>>
    /\ hs = [h \in Handlers |-> HIdle]
    /\ geo = GeoIdle
    /\ gw = GwIdle
    /\ InitBoot
    /\ InitStores
    /\ hook = HookMounted(Undefined, 0)
    /\ provider \in {ProviderMounted(stored) : stored \in StoredSettings}
    /\ box = BoxMounted

NextSettings ==
    \/ LoadSettings
    \/ SaveSettings
    \/ ProviderRender
    \/ updateSettings
    \/ resetSettings

SpecSettings == InitSettings /\ [][NextSettings]_vars

NextSearchBox ==
    \/ BoxInput
    \/ BoxKey
    \/ BoxFocus
    \/ BoxResults

SpecSearchBox == Init /\ [][NextSearchBox]_vars

----------------------------------------------------------------------------
(* C27: the alert notifications *)

\* C27: checkForNewAlerts calls toast() only while the notifications are
\* enabled, and only for an alert that has not ended, is not minor and whose
\* id is not in shownAlertIds; and no alert id is ever notified twice, even
\* when the alert comes back with another severity after it was shown.
C27_NotifiedAtMostOnce ==
    [][/\ \A i \in (Len(hook.toasts) + 1)..Len(hook'.toasts) :
             LET alert == hook'.toasts[i]
             IN  /\ hook.enabled
                 /\ alert.endTime >= NowMs
                 /\ toLowerCase(alert.severity) # "minor"
                 /\ alert.id \notin hook.shownAlertIds
       /\ \A i, j \in 1..Len(hook'.toasts) :
             i # j => hook'.toasts[i].id # hook'.toasts[j].id]_vars

\* Alert 1 was notified as moderate, and a later check has seen it as severe
\* with the notifications enabled
C27_Witness ==
    /\ \E i \in 1..Len(hook.toasts) :
         hook.toasts[i] = WeatherAlert(1, "moderate", 0, DayMs)
    /\ 1 \in hook.shownAlertIds
    /\ hook.enabled
    /\ ~hook.effectDue
    /\ hook.previousAlerts = hook.alerts
    /\ \E k \in 1..Len(hook.alerts) : hook.alerts[k] = WeatherAlert(1, "severe", 0, DayMs)

----------------------------------------------------------------------------
(* C28, C29: the settings and their persistence *)

\* The stored text is one the load effect rejects
Rejected(stored) ==
    /\ IsDefined(stored)
    /\ Get(stored).text # "empty"
    /\ \/ Get(stored).text # "json"
       \/ ~userSettingsSchema(Get(stored).value)

\* Every queued updater is an updateSettings whose merge with s is invalid
AllInvalid(s, us) ==
    \A i \in 1..Len(us) :
        /\ us[i].op = "update"
        /\ ~userSettingsSchema(Spread(s, us[i].value))

\* C28: the settings of SettingsProvider satisfy the schema in every
\* reachable state; a render that applies only updateSettings calls whose
\* merges fail the schema leaves the settings as they were; and the render
\* that applies the load of a stored text that fails to parse or to
\* validate sets the defaults.
C28_SettingsSatisfySchema ==
    [][/\ userSettingsSchema(provider.settings)
       /\ userSettingsSchema(provider'.settings)
       /\ (provider.pending # <<>> /\ provider'.pending = <<>>
           /\ AllInvalid(provider.settings, provider.pending))
              => provider'.settings = provider.settings
       /\ (provider.isLoading /\ ~provider'.isLoading /\ Rejected(provider.stored)
           /\ Len(provider.pending) = 2)
              => provider'.settings = defaultSettings]_vars

\* The load of an unparsable text has been applied and nothing saved yet
C28_Witness ==
    /\ provider.stored = Some(StoredText("garbage", <<>>))
    /\ ~provider.isLoading
    /\ provider.saveDue
    /\ provider.settings = defaultSettings

\* C29: localStorage is written only after the initial load has completed
\* (isLoading is false and the load effect has run), and what is written is
\* the settings of that render; so while the provider is loading the stored
\* settings stay what they were.
C29_NoSaveWhileLoading ==
    [][provider'.stored # provider.stored =>
          /\ ~provider.isLoading
          /\ ~provider.loadDue
          /\ provider'.stored = Some(stringify(provider.settings))]_vars

\* Valid stored settings were loaded, and the save effect of the render that
\* applied them has run
C29_Witness ==
    /\ provider.stored = Some(stringify(UserSettings("celsius", "dark", FALSE, 15, FALSE)))
    /\ provider.settings = UserSettings("celsius", "dark", FALSE, 15, FALSE)
    /\ ~provider.isLoading
    /\ ~provider.saveDue
    /\ provider.pending = <<>>

----------------------------------------------------------------------------
(* C30: the highlighted row of LocationSearch *)

====
